---- MODULE Spec2Model ----
(***************************************************************************)
(* Model of the Harness account migration tool (src/harness_migration.py). *)
(*                                                                         *)
(* Four specifications share one set of variables:                         *)
(*   Spec       one invocation of HarnessMigrator.migrate_all              *)
(*   SpecRerun  an invocation that may be killed between two API calls and *)
(*              is then started again from phase 1                         *)
(*   SpecPage   one call of HarnessAPIClient._fetch_paginated, and of      *)
(*              list_overrides over the same pages                         *)
(*   SpecCall   one call of a helper: the already-exists classifier,       *)
(*              is_gitx_resource, _get_all_scopes, _get_project_scopes     *)
(***************************************************************************)
EXTENDS Integers, Sequences, FiniteSets, Bags, TLC

\* ------------------------------------------------------------------------
\* Bounds of the model
\* ------------------------------------------------------------------------
\* largest number of entries in the resource_types argument that Init draws
MaxTypes == 2
\* largest number of anomalous responses (failed listing, failed get, hard
\* write error, raised exception, malformed entry) injected into one run
MaxFaults == 1
\* largest number of items behind a paginated listing endpoint
MaxItems == 6
\* largest page size of a paginated listing endpoint
MaxPageSize == 3
\* largest number of words in a response body given to the classifier
MaxWords == 2
\* largest number of entries the organization and project listings given
\* to the scope enumeration hold together
MaxListed == 3
\* entries per page of those listings
ListedPerPage == 1

\* Python's None
None == "None"

\* ------------------------------------------------------------------------
\* Resource types and the phases of migrate_all
\* ------------------------------------------------------------------------
\* the choices of --resource-types, in the order main() declares them
ResourceTypeChoices ==
  << "organizations", "projects", "connectors", "secrets", "environments",
     "infrastructures", "services", "overrides", "monitored-services",
     "user-journeys", "pipelines", "templates", "input-sets", "triggers",
     "webhooks", "policies", "policy-sets", "roles", "resource-groups",
     "settings", "ip-allowlists", "users", "service-accounts" >>

\* The body of migrate_all, top to bottom: one entry per "if '<rtype>' in
\* resource_types: all_results['<key>'] = self.<fn>()" statement.
MigrateAllOrder ==
  << [key |-> "organizations",                    rtype |-> "organizations",      fn |-> "organizations"],
     [key |-> "projects",                         rtype |-> "projects",           fn |-> "projects"],
     [key |-> "secret_manager_templates",         rtype |-> "templates",          fn |-> "templates_sm"],
     [key |-> "custom_secret_manager_connectors", rtype |-> "connectors",         fn |-> "connectors_custom"],
     [key |-> "harness_secret_manager_secrets",   rtype |-> "secrets",            fn |-> "secrets_harness"],
     [key |-> "secret_manager_connectors",        rtype |-> "connectors",         fn |-> "connectors_sm"],
     [key |-> "secrets",                          rtype |-> "secrets",            fn |-> "secrets"],
     [key |-> "connectors",                       rtype |-> "connectors",         fn |-> "connectors"],
     [key |-> "deployment_artifact_templates",    rtype |-> "templates",          fn |-> "templates_da"],
     [key |-> "environments",                     rtype |-> "environments",       fn |-> "environments"],
     [key |-> "infrastructures",                  rtype |-> "infrastructures",    fn |-> "infrastructures"],
     [key |-> "services",                         rtype |-> "services",           fn |-> "services"],
     [key |-> "overrides",                        rtype |-> "overrides",          fn |-> "overrides"],
     [key |-> "monitored_services",               rtype |-> "monitored-services", fn |-> "monitored_services"],
     [key |-> "user_journeys",                    rtype |-> "user-journeys",      fn |-> "user_journeys"],
     [key |-> "templates",                        rtype |-> "templates",          fn |-> "templates"],
     [key |-> "pipelines",                        rtype |-> "pipelines",          fn |-> "pipelines"],
     [key |-> "input_sets",                       rtype |-> "input-sets",         fn |-> "input_sets"],
     [key |-> "triggers",                         rtype |-> "triggers",           fn |-> "triggers"],
     [key |-> "webhooks",                         rtype |-> "webhooks",           fn |-> "webhooks"],
     [key |-> "policies",                         rtype |-> "policies",           fn |-> "policies"],
     [key |-> "policy_sets",                      rtype |-> "policy-sets",        fn |-> "policy_sets"],
     [key |-> "roles",                            rtype |-> "roles",              fn |-> "roles"],
     [key |-> "resource_groups",                  rtype |-> "resource-groups",    fn |-> "resource_groups"],
     [key |-> "settings",                         rtype |-> "settings",           fn |-> "settings"],
     [key |-> "ip_allowlists",                    rtype |-> "ip-allowlists",      fn |-> "ip_allowlists"],
     [key |-> "users",                            rtype |-> "users",              fn |-> "users"],
     [key |-> "service_accounts",                 rtype |-> "service-accounts",   fn |-> "service_accounts"] >>

NumPhases == Len(MigrateAllOrder)
PhaseKeys == { MigrateAllOrder[i].key : i \in 1..NumPhases }

\* "'x' in resource_types" on a Python list
InList(x, list) == \E i \in 1..Len(list) : list[i] = x

TemplateFns  == {"templates_sm", "templates_da", "templates"}
ConnectorFns == {"connectors_custom", "connectors_sm", "connectors"}
SecretFns    == {"secrets_harness", "secrets"}

\* ------------------------------------------------------------------------
\* Per-function facts read off the migrate_* methods
\* ------------------------------------------------------------------------
\* which scopes a migrate_* method iterates: the account only (no call of a
\* scope enumerator), _get_all_scopes(), or _get_project_scopes()
\* a tool whose every method walks _get_all_scopes()
ScopeKindAllLevels(fn) == "all"

ScopeKind(fn) ==
  IF fn \in {"organizations", "projects", "ip_allowlists"} THEN "account"
  ELSE IF fn \in {"monitored_services", "user_journeys", "pipelines",
                  "input_sets", "triggers"} THEN "project"
  ELSE "all"

\* methods with a two-level listing: the scope's parents are listed first
\* (environments, pipelines, templates) and the items per parent after
\* (infrastructures, input sets, triggers, template versions)
\* migrate_settings has the same shape: its outer list is the fixed list of
\* setting categories and list_settings(category) is the inner listing
Nested(fn) ==
  fn \in {"infrastructures", "input_sets", "triggers", "settings"} \cup TemplateFns

\* what the method does with an item whose get returned no data:
\*   "none"      the method issues no get for its items
\*   "required"  results['failed'] += 1; continue
\*   "fallback"  the list entry is used in place of the fetched data
\*   "silent"    continue, no counter changes
GetMode(fn) ==
  IF fn \in {"organizations", "projects", "user_journeys", "settings",
             "ip_allowlists", "users", "service_accounts"} THEN "none"
  ELSE IF fn \in {"overrides", "webhooks", "policies", "policy_sets",
                  "roles", "resource_groups"} THEN "fallback"
  ELSE IF fn = "secrets_harness" THEN "silent"
  ELSE "required"

\* methods that call is_gitx_resource and have an import path besides create
HasRemotePath(fn) ==
  fn \in {"environments", "infrastructures", "services", "overrides",
          "pipelines", "input_sets"} \cup TemplateFns

\* list_* methods that wrap _fetch_paginated / _make_request in try/except
\* (list_secrets, list_overrides and list_ip_allowlists do not); the
\* settings loop has its own try/except around the whole category
ListCaught(fn) == fn \notin {"secrets_harness", "secrets", "overrides", "ip_allowlists"}

\* a raised request exception is caught around the get only in the settings
\* loop (which has no get); no get_* method has a try/except of its own
\* create_connector_yaml and create_template catch RequestException and
\* return False; every other write lets it propagate (settings: the
\* category loop catches it)
WriteCaught(fn, remote) ==
  \/ fn \in ConnectorFns
  \/ fn \in TemplateFns /\ ~remote
  \/ fn = "settings"

\* the resource type under which the destination stores what fn writes
DestType(fn) ==
  IF fn \in TemplateFns THEN "template"
  ELSE IF fn \in ConnectorFns THEN "connector"
  ELSE IF fn \in SecretFns THEN "secret"
  ELSE fn

\* endpoints that overwrite an existing resource instead of rejecting it:
\* serviceOverrides/upsert, PUT resourcegroup/{id}, PUT settings
IsUpsert(fn) == fn \in {"overrides", "resource_groups", "settings"}

\* ------------------------------------------------------------------------
\* The source tenant
\* ------------------------------------------------------------------------
\* sequence helpers
RECURSIVE Flatten(_)
Flatten(ss) == IF ss = <<>> THEN <<>> ELSE Head(ss) \o Flatten(Tail(ss))
MapSeq(f(_), s) == [i \in 1..Len(s) |-> f(s[i])]

\* a scope is the (org_identifier, project_identifier) tuple of the code
Scope(o, p) == [org |-> o, proj |-> p]
AccountScope == Scope(None, None)
\* Python truthiness of an identifier ("if org_id:")
Truthy(x) == x # None /\ x # ""
\* Python truthiness of a dictionary field ("if not git_details:")
NonEmpty(x) == x \in {"partial", "full"}

\* One listed / fetched resource.  Dict-valued and string-valued fields are
\* abstracted to "absent" (no key), "empty" (key with a falsy value) and
\* "full" (key with a truthy value).  A git details dictionary may also be
\* "partial": not empty, but without one of repoName, branch and filePath.
\*   wrapped      the list entry carries its data under the wrapper key
\*                ('organization', 'project', ...)
\*   ttype        'type' of a connector, 'templateEntityType' of a template
\*   yaml         the 'yaml' key;  body: the method's own content key when it
\*                is not 'yaml' ('yamlPipeline', 'inputSetYaml')
\*   harnessSM    spec.secretManagerIdentifier names the built-in manager
\*   extra        the second-step payload exists (role permissions, health
\*                sources, role bindings)
\*   subs         API keys of a service account
\*   pgitx        input sets: is_gitx_resource of the owning pipeline
\*   n            number of setting updates in a settings batch, else 1
\*   value        spec.value of a secret: "absent", or "source" for the
\*                value the source tenant holds
Item(id) ==
  [ id |-> id, org |-> None, wrapped |-> TRUE, ttype |-> "", storeType |-> "absent",
    gitDetails |-> "absent", entityGitDetails |-> "absent",
    entityGitInfo |-> "absent", repoBranch |-> FALSE, connectorRef |-> FALSE,
    yaml |-> "full", body |-> "full", harnessSM |-> FALSE, extra |-> FALSE,
    subs |-> <<>>, version |-> "", parent |-> "", pgitx |-> FALSE, n |-> 1,
    value |-> "absent" ]

SrcOrganizations == << Item("default"), Item("o1") >>
\* the flat listing GET /ng/api/projects without orgIdentifier
SrcProjects ==
  << [Item("default_project") EXCEPT !.org = "default"],
     [Item("p1") EXCEPT !.org = "o1"] >>

ProjScope == Scope("o1", "p1")

SrcConnectors ==
  << [Item("harnessImage") EXCEPT !.ttype = "DockerRegistry"],
     [Item("csm1") EXCEPT !.ttype = "CustomSecretManager"],
     [Item("vault1") EXCEPT !.ttype = "Vault"],
     [Item("git1") EXCEPT !.ttype = "Github"] >>

\* the connectors of the project p1: the built-in secret manager, and a
\* connector that has the name of the account's built-in registry
SrcProjectConnectors ==
  << [Item("harnessSecretManager") EXCEPT !.ttype = "GcpKms"],
     [Item("harnessImage") EXCEPT !.ttype = "DockerRegistry"] >>

SrcSecrets ==
  << [Item("sec_h") EXCEPT !.harnessSM = TRUE, !.value = "source"],
     [Item("sec_v") EXCEPT !.value = "source"] >>

SrcTemplates ==
  << [Item("t_stage") EXCEPT !.ttype = "Stage"],
     [Item("t_sm") EXCEPT !.ttype = "SecretManager"],
     [Item("t_step") EXCEPT !.ttype = "Step"],
     [Item("t_da") EXCEPT !.ttype = "DeploymentTemplate"] >>

\* the templates of the project p1
SrcProjectTemplates ==
  << [Item("t_p_step") EXCEPT !.ttype = "Step"] >>

SrcEnvironments ==
  << Item("e1"),
     [Item("e2") EXCEPT !.storeType = "REMOTE", !.entityGitDetails = "full"],
     [Item("e3") EXCEPT !.storeType = "REMOTE", !.entityGitDetails = "partial"],
     [Item("e4") EXCEPT !.entityGitDetails = "empty"],
     [Item("e5") EXCEPT !.entityGitDetails = "empty", !.yaml = "empty"] >>

SrcPipelines ==
  << [Item("pl1") EXCEPT !.storeType = "REMOTE", !.gitDetails = "full", !.yaml = "absent"],
     [Item("pl2") EXCEPT !.storeType = "INLINE", !.yaml = "absent"],
     [Item("pl3") EXCEPT !.storeType = "INLINE", !.yaml = "absent"] >>

\* settings_categories of migrate_settings
settings_categories ==
  << "CORE", "CONNECTORS", "CD", "CI", "GIT_EXPERIENCE", "PMS", "NOTIFICATIONS",
     "DBOPS", "EULA", "MODULES_VISIBILITY" >>

\* the listing a migrate_* method obtains for one scope (for a nested method:
\* the parents it lists first)
SrcList(fn, sc) ==
  IF fn = "organizations" THEN (IF sc = AccountScope THEN SrcOrganizations ELSE <<>>)
  ELSE IF fn = "projects" THEN (IF sc = AccountScope THEN SrcProjects ELSE <<>>)
  ELSE IF fn \in ConnectorFns
       THEN (IF sc = AccountScope THEN SrcConnectors
             ELSE IF sc = ProjScope THEN SrcProjectConnectors ELSE <<>>)
  ELSE IF fn \in SecretFns THEN (IF sc = ProjScope THEN SrcSecrets ELSE <<>>)
  ELSE IF fn \in TemplateFns
       THEN (IF sc = AccountScope THEN SrcTemplates
             ELSE IF sc = ProjScope THEN SrcProjectTemplates ELSE <<>>)
  ELSE IF fn \in {"environments", "infrastructures"}
       THEN (IF sc = ProjScope THEN SrcEnvironments ELSE <<>>)
  ELSE IF fn \in {"pipelines", "input_sets", "triggers"}
       THEN (IF sc = ProjScope THEN SrcPipelines ELSE <<>>)
  ELSE IF fn = "services"
       THEN (IF sc = ProjScope THEN << Item("sv1") >>
             ELSE IF sc = AccountScope
             THEN << [Item("sv0") EXCEPT !.gitDetails = "full"] >> ELSE <<>>)
  ELSE IF fn = "overrides"
       THEN (IF sc = ProjScope
             THEN << Item("ov1"),
                     [Item("ov2") EXCEPT !.storeType = "REMOTE", !.entityGitInfo = "full",
                                         !.connectorRef = TRUE],
                     [Item("ov3") EXCEPT !.gitDetails = "empty", !.entityGitInfo = "full",
                                         !.connectorRef = TRUE] >>
             ELSE <<>>)
  ELSE IF fn = "monitored_services"
       THEN (IF sc = ProjScope THEN << [Item("ms1") EXCEPT !.extra = TRUE] >> ELSE <<>>)
  ELSE IF fn = "user_journeys" THEN (IF sc = ProjScope THEN << Item("uj1") >> ELSE <<>>)
  ELSE IF fn = "webhooks" THEN (IF sc = AccountScope THEN << Item("wh1") >> ELSE <<>>)
  ELSE IF fn = "policies"
       THEN (IF sc = AccountScope THEN << Item("builtin-example-policy-1"), Item("pol1") >> ELSE <<>>)
  ELSE IF fn = "policy_sets" THEN (IF sc = AccountScope THEN << Item("ps1") >> ELSE <<>>)
  ELSE IF fn = "roles"
       THEN (IF sc = AccountScope
             THEN << Item("_account_admin"), [Item("role1") EXCEPT !.extra = TRUE] >> ELSE <<>>)
  ELSE IF fn = "resource_groups"
       THEN (IF sc = AccountScope THEN << Item("_all_resources"), Item("rg1") >> ELSE <<>>)
  ELSE IF fn = "settings" THEN MapSeq(Item, settings_categories)
  ELSE IF fn = "ip_allowlists" THEN (IF sc = AccountScope THEN << Item("ip1") >> ELSE <<>>)
  ELSE IF fn = "users" THEN (IF sc = AccountScope THEN << Item("u1@x") >> ELSE <<>>)
  ELSE IF fn = "service_accounts"
       THEN (IF sc = AccountScope
             THEN << [Item("sa1") EXCEPT !.extra = TRUE, !.subs = << "k1" >>] >> ELSE <<>>)
  ELSE <<>>

\* the items a nested method lists under one parent: infrastructures of an
\* environment, input sets / triggers of a pipeline, versions of a template
SrcChildren(fn, sc, parent) ==
  IF fn = "infrastructures"
  THEN (IF parent.id = "e1" THEN << [Item("i1") EXCEPT !.parent = "e1"] >> ELSE <<>>)
  ELSE IF fn = "input_sets"
  THEN (IF parent.id = "pl1"
        THEN << [Item("is1") EXCEPT !.parent = "pl1", !.gitDetails = "full", !.yaml = "absent"] >>
        ELSE IF parent.id = "pl2"
        THEN << [Item("is2") EXCEPT !.parent = "pl2", !.yaml = "absent"] >>
        ELSE IF parent.id = "pl3"
        THEN << [Item("is3") EXCEPT !.parent = "pl3", !.storeType = "REMOTE",
                                    !.gitDetails = "full", !.yaml = "absent"] >>
        ELSE <<>>)
  ELSE IF fn = "triggers"
  THEN (IF parent.id = "pl2" THEN << [Item("tr1") EXCEPT !.parent = "pl2"] >> ELSE <<>>)
  ELSE IF fn \in TemplateFns
  THEN << [parent EXCEPT !.version = "v1", !.parent = parent.id] >>
  ELSE IF fn = "settings"
  THEN (IF sc = AccountScope /\ parent.id = "CORE"
        THEN << [Item("CORE") EXCEPT !.n = 2] >> ELSE <<>>)
  ELSE <<>>

\* ------------------------------------------------------------------------
\* State
\* ------------------------------------------------------------------------
VARIABLES
  resource_types,  \* migrate_all's argument: a list of resource type names
  dry_run,         \* HarnessMigrator.dry_run
  destMode,        \* "up", or "down": the destination fails every write
  faults,          \* anomalous responses the environment has injected
  pc,              \* position of the single thread of control
  phase,           \* index into MigrateAllOrder of the current "if" statement
  phaseStatus,     \* per phase: "NotStarted", "Running", "Completed"
  scopes, si,      \* the scopes of the running phase and the loop index
  parents, pi,     \* nested methods: the parents of the scope, loop index
  items, ii,       \* the listing being iterated and the loop index
  cur,             \* the item between its fetch and its write
  todo,            \* follow-up calls of a multi-step write still to issue
  results,         \* the running phase's results dict
  all_results,     \* migrate_all's all_results dict
  dest,            \* the bag of resources the destination tenant holds
  calls,           \* history: every request sent to the destination tenant
  order,           \* history: the keys of the phases entered, in order
  listedCount,     \* history: the number of items the running phase has listed
  last,            \* history: the step taken last and what its request met
  mode,            \* SpecRerun: which invocation of the tool this is
  destRef,         \* SpecRerun: destination after the uninterrupted run
  pg,              \* SpecPage: locals of _fetch_paginated and its endpoint
  frame            \* SpecCall: arguments and return value of one helper call

vars == << resource_types, dry_run, destMode, faults, pc, phase, phaseStatus,
           scopes, si, parents, pi, items, ii, cur, todo, results,
           all_results, dest, calls, order,
           listedCount, last, mode, destRef, pg, frame >>

\* results = {'success': 0, 'failed': 0, 'skipped': 0}
ZeroResults == [success |-> 0, failed |-> 0, skipped |-> 0]
\* a counter that counts every item twice
BumpTwice(r, field, n) == [r EXCEPT ![field] = @ + n + n]
Bump(r, field, n) == [r EXCEPT ![field] = @ + n]

NoItem == Item("")
PgIdle == [state |-> "idle"]
FrameIdle == [state |-> "idle"]

\* migrate_all with the "templates" and "pipelines" statements exchanged
PhaseAtSwapped(i) ==
  IF i = 16 THEN MigrateAllOrder[17]
  ELSE IF i = 17 THEN MigrateAllOrder[16]
  ELSE MigrateAllOrder[i]
\* migrate_all with its statements bottom to top
PhaseAtReversed(i) == MigrateAllOrder[NumPhases + 1 - i]

\* the i-th "if" statement of migrate_all
PhaseAt(i) == MigrateAllOrder[i]
Fn  == PhaseAt(phase).fn
Key == PhaseAt(phase).key

\* ------------------------------------------------------------------------
\* Letter case of a response body
\* ------------------------------------------------------------------------
\* A response body as the server writes it is a set of words: a phrase and
\* whether it is written in upper case.  Lower is str.lower(): every phrase
\* in lower case.  (The texts of the destination model above are written in
\* lower case throughout.)
LowerCaseOnly(body) == { w.phrase : w \in { x \in body : ~x.upper } }

\* "response_lower = response_text.lower()"
Lower(body) == { w.phrase : w \in body }

\* ------------------------------------------------------------------------
\* Scope enumeration
\* ------------------------------------------------------------------------
\* an enumeration that asks a project for its own identifier only
GetAllScopesAnyOrg(orgs, projects) ==
  LET orgScope(o)  == Scope(o.id, None)
      projScope(p) == Scope(p.org, p.id)
  IN  << AccountScope >>
      \o MapSeq(orgScope, SelectSeq(orgs, LAMBDA o : Truthy(o.id)))
      \o MapSeq(projScope, SelectSeq(projects, LAMBDA p : Truthy(p.id)))

\* an enumeration that walks the projects before the organizations
GetAllScopesProjectsFirst(orgs, projects) ==
  LET orgScope(o)  == Scope(o.id, None)
      projScope(p) == Scope(p.org, p.id)
  IN  << AccountScope >>
      \o MapSeq(projScope, SelectSeq(projects, LAMBDA p : Truthy(p.org) /\ Truthy(p.id)))
      \o MapSeq(orgScope, SelectSeq(orgs, LAMBDA o : Truthy(o.id)))

\* _get_all_scopes, given what list_organizations() and list_projects()
\* returned
GetAllScopes(orgs, projects) ==
  LET orgScope(o)  == Scope(o.id, None)
      projScope(p) == Scope(p.org, p.id)
  IN  << AccountScope >>
      \o MapSeq(orgScope, SelectSeq(orgs, LAMBDA o : Truthy(o.id)))
      \o MapSeq(projScope, SelectSeq(projects, LAMBDA p : Truthy(p.org) /\ Truthy(p.id)))

\* _get_project_scopes, given what list_organizations() returned and the
\* projects the tenant serves (list_projects(org_id) returns those of org_id)
GetProjectScopes(orgs, projects) ==
  LET perOrg(o) ==
        LET projScope(p) == Scope(o.id, p.id)
            listed == SelectSeq(projects, LAMBDA p : p.org = o.id)
        IN  MapSeq(projScope, SelectSeq(listed, LAMBDA p : Truthy(p.id)))
  IN  Flatten(MapSeq(perOrg, SelectSeq(orgs, LAMBDA o : Truthy(o.id))))

\* ------------------------------------------------------------------------
\* Pure functions of the client and of the migrate_* methods
\* ------------------------------------------------------------------------
\* a classifier that looks at the git details before the storeType
is_gitx_details_first(d) ==
  IF NonEmpty(d.gitDetails) \/ NonEmpty(d.entityGitDetails) THEN TRUE
  ELSE IF d.storeType = "REMOTE" THEN TRUE
  ELSE IF d.storeType = "INLINE" THEN FALSE
  ELSE IF d.repoBranch THEN TRUE
  ELSE IF d.yaml = "full"
       THEN d.gitDetails # "absent" \/ d.entityGitDetails # "absent"
  ELSE FALSE

\* a classifier for which a yaml field always means inline
is_gitx_yaml_is_inline(d) ==
  IF d.storeType = "REMOTE" THEN TRUE
  ELSE IF d.storeType = "INLINE" THEN FALSE
  ELSE IF NonEmpty(d.gitDetails) \/ NonEmpty(d.entityGitDetails) THEN TRUE
  ELSE d.repoBranch

\* is_gitx_resource(resource_data)
is_gitx_resource(d) ==
  IF d.storeType = "REMOTE" THEN TRUE
  ELSE IF d.storeType = "INLINE" THEN FALSE
  ELSE IF NonEmpty(d.gitDetails) \/ NonEmpty(d.entityGitDetails) THEN TRUE
  ELSE IF d.repoBranch THEN TRUE
  ELSE IF d.yaml = "full"
       THEN d.gitDetails # "absent" \/ d.entityGitDetails # "absent"
  ELSE FALSE

\* A response text is modelled as the set of phrases it is made of;
\* "needle in response_lower" holds when the needle is a substring of one of
\* them.  SubstringOf lists the proper-substring pairs among the phrases
\* that is_resource_already_exists_error looks for.
SubstringOf(needle, phrase) ==
  \/ needle = phrase
  \/ /\ needle = "already exists"
     /\ phrase \in {"already exists or", "already exists or is soft deleted",
                    "already exists or has been deleted",
                    "already exists in this scope", "already exists."}
  \/ /\ needle = "already exists or"
     /\ phrase \in {"already exists or is soft deleted",
                    "already exists or has been deleted"}
  \/ /\ needle = "duplicate"
     /\ phrase \in {"duplicate_field", "duplicate_file_import", "e11000 duplicate key"}
  \/ /\ needle = "must be unique" /\ phrase = "identifier must be unique"
Contains(text, needle) == \E phrase \in text : SubstringOf(needle, phrase)

specific_error_codes == << "duplicate_field", "duplicate_file_import", "invalid_request" >>
definitive_error_messages ==
  << "already exists", "already present", "already been imported", "duplicate",
     "already been created", "resource already", "cannot be used", "must be unique",
     "already exists or", "e11000 duplicate key", "dup key",
     "identifier must be unique", "already exists or is soft deleted",
     "already exists or has been deleted", "already exists in this scope",
     "already exists." >>

\* is_resource_already_exists_error(status_code, response_text)
is_resource_already_exists_error(status_code, text) ==
  IF status_code \notin {400, 409, 500} THEN FALSE
  ELSE
    \/ \E i \in 1..Len(specific_error_codes) :
         /\ Contains(text, specific_error_codes[i])
         /\ \/ specific_error_codes[i] # "invalid_request"
            \/ \E m \in {"already exists", "already been imported", "already present"} :
                 Contains(text, m)
    \/ \E i \in 1..Len(definitive_error_messages) :
         Contains(text, definitive_error_messages[i])

\* the identifiers of the source tenant that match ^builtin-example-policy-\d+$
\* (_is_builtin_example_policy) and that start with "_" (_is_builtin_role,
\* _is_builtin_resource_group)
BuiltinExamplePolicies == {"builtin-example-policy-1"}
UnderscoreIds == {"_account_admin", "_all_resources"}

\* a test that knows the built-in connectors of the account only
is_default_connector_of_account(sc, id) ==
  sc = AccountScope /\ id \in {"harnessImage", "harnessSecretManager"}

\* _is_default_connector(connector_identifier, org_id, project_id)
is_default_connector(sc, id) ==
  \/ ~Truthy(sc.org) /\ ~Truthy(sc.proj) /\ id = "harnessImage"
  \/ id = "harnessSecretManager"

\* str.lower() on the connector types of the source tenant
TypeLower(t) ==
  CASE t = "CustomSecretManager" -> "customsecretmanager"
    [] t = "Vault" -> "vault"
    [] t = "AwsSecretsManager" -> "awssecretsmanager"
    [] t = "GcpKms" -> "gcpkms"
    [] t = "Github" -> "github"
    [] t = "DockerRegistry" -> "dockerregistry"
    [] OTHER -> t

\* _is_custom_secret_manager_connector(connector_data)
is_custom_secret_manager_connector(it) == TypeLower(it.ttype) = "customsecretmanager"

\* a test that also takes the custom secret managers
is_any_secret_manager_connector(it) ==
  TypeLower(it.ttype) \in {"vault", "awssecretmanager", "azurekeyvault", "gcpkms",
                           "awssecretsmanager", "azuresecretmanager", "customsecretmanager"}

\* _is_secret_manager_connector(connector_data)
is_secret_manager_connector(it) ==
  TypeLower(it.ttype) \in {"vault", "awssecretmanager", "azurekeyvault", "gcpkms",
                           "awssecretsmanager", "azuresecretmanager"}

\* the guards of a migrate_* loop body that run before the item is fetched:
\*   "skipped"   results['skipped'] += 1; continue
\*   "continue"  continue, no counter changes
\*   "process"   the item goes on
PreCheck(fn, sc, it) ==
  IF fn = "organizations" THEN (IF it.id = "default" THEN "skipped" ELSE "process")
  ELSE IF fn = "projects" THEN (IF it.id = "default_project" THEN "skipped" ELSE "process")
  ELSE IF fn \in ConnectorFns THEN
    LET custom  == is_custom_secret_manager_connector(it)
        manager == is_secret_manager_connector(it)
        default == is_default_connector(sc, it.id)
    IN  IF fn = "connectors_custom" /\ ~custom THEN "continue"
        ELSE IF fn = "connectors_sm" /\ ~manager THEN "continue"
        ELSE IF fn = "connectors" /\ (custom \/ manager) THEN "skipped"
        ELSE IF default THEN "skipped"
        ELSE "process"
  ELSE IF fn = "policies"
       THEN (IF it.id \in BuiltinExamplePolicies THEN "skipped" ELSE "process")
  ELSE IF fn \in {"roles", "resource_groups"}
       THEN (IF it.id \in UnderscoreIds THEN "skipped" ELSE "process")
  ELSE IF fn \in {"user_journeys", "monitored_services", "users", "service_accounts"}
       THEN (IF it.id = "" THEN "skipped" ELSE "process")
  ELSE "process"

\* is the fetched resource imported from Git rather than created inline
Remote(fn, d) ==
  IF fn = "input_sets" THEN d.pgitx
  ELSE HasRemotePath(fn) /\ is_gitx_resource(d)

\* the git details the import path of fn needs are present and non-empty
HasGitDetails(fn, d) ==
  IF fn = "environments" THEN NonEmpty(d.entityGitDetails)
  ELSE IF fn = "overrides" THEN NonEmpty(d.entityGitInfo)
  ELSE IF fn = "pipelines" THEN NonEmpty(d.gitDetails)
  ELSE NonEmpty(d.gitDetails) \/ NonEmpty(d.entityGitDetails)

\* the content the create path of fn sends is present and non-empty
HasContent(fn, d) ==
  IF fn \in {"pipelines", "input_sets"} THEN d.body = "full"
  ELSE IF fn \in TemplateFns THEN d.yaml = "full" \/ d.body = "full"
  ELSE d.yaml = "full"

\* the guards that run on the fetched data, before the export and the write:
\*   "failed"    results['failed'] += 1; continue
\*   "skipped"   results['skipped'] += 1; continue
\*   "continue"  continue, no counter changes
\*   "write"     the item reaches the export and the write step
PostCheck(fn, d) ==
  IF fn = "secrets_harness" THEN (IF d.harnessSM THEN "write" ELSE "continue")
  ELSE IF fn = "secrets" THEN (IF d.harnessSM THEN "skipped" ELSE "write")
  ELSE IF HasRemotePath(fn)
       THEN (IF Remote(fn, d)
             THEN (IF HasGitDetails(fn, d) THEN "write" ELSE "failed")
             ELSE (IF HasContent(fn, d) THEN "write" ELSE "failed"))
  ELSE IF fn = "triggers" THEN (IF d.yaml = "full" THEN "write" ELSE "failed")
  ELSE "write"

\* an export that writes the secret as it was fetched
Unredacted(v) == v

\* "if 'value' in export_spec: export_spec['value'] = '***REDACTED***'"
Redacted(v) == IF v = "absent" THEN "absent" ELSE "***REDACTED***"

\* create_secret: "if is_harness_secret_manager: ... ['value'] = 'changeme'"
SentValue(d) == IF d.harnessSM THEN "changeme" ELSE d.value

\* methods whose export_file.write_text sits inside try/except
ExportCaught(fn) ==
  fn \in SecretFns \cup {"user_journeys", "monitored_services", "webhooks", "policies",
                        "policy_sets", "roles", "resource_groups", "settings",
                        "ip_allowlists", "users", "service_accounts"}

\* does the loop body write an export file for this item (the import paths
\* export only when the fetched data carries content)
Exports(fn, d) ==
  IF HasRemotePath(fn) /\ Remote(fn, d) THEN HasContent(fn, d) ELSE TRUE

\* template grouping of migrate_templates: filter by template_types, then
\* the types of template_type_order in that order, then the other types
TemplateTypesOf(fn) ==
  IF fn = "templates_sm" THEN {"SecretManager"}
  ELSE IF fn = "templates_da" THEN {"DeploymentTemplate", "ArtifactSource"}
  ELSE {}
template_type_order == << "Step", "MonitoredService", "StepGroup", "Stage", "Pipeline" >>
\* a method that takes the templates as they are listed
TemplatesAsListed(fn, templates) ==
  SelectSeq(templates, LAMBDA t : TemplateTypesOf(fn) = {} \/ t.ttype \in TemplateTypesOf(fn))

TemplatesInOrder(fn, templates) ==
  LET wanted(t) == TemplateTypesOf(fn) = {} \/ t.ttype \in TemplateTypesOf(fn)
      kept      == SelectSeq(templates, wanted)
      ofType(ty) == SelectSeq(kept, LAMBDA t : t.ttype = ty)
      others    == SelectSeq(kept, LAMBDA t : ~InList(t.ttype, template_type_order))
      \* the keys of templates_by_type outside template_type_order, in
      \* insertion order
      firstOfType(i) == \A j \in 1..(i - 1) : others[j].ttype # others[i].ttype
      otherTypes == LET idx == SelectSeq([i \in 1..Len(others) |-> i], firstOfType)
                    IN  [k \in 1..Len(idx) |-> others[idx[k]].ttype]
  IN  Flatten(MapSeq(ofType, template_type_order)) \o Flatten(MapSeq(ofType, otherTypes))

\* ------------------------------------------------------------------------
\* The destination tenant
\* ------------------------------------------------------------------------
\* what identifies a stored resource; part is "main" for the resource itself
\* and names the second-step payload otherwise
\* (create_project is called with the project's own orgIdentifier)
DestKey(fn, sc, it, part, sub) ==
  [ type |-> DestType(fn), org |-> IF fn = "projects" THEN it.org ELSE sc.org,
    proj |-> sc.proj, parent |-> it.parent,
    id |-> it.id, ver |-> it.version, part |-> part, sub |-> sub ]

\* the further destination calls a write is made of, after its first call:
\* PUT role (permissions); PUT monitored service (health sources) when there
\* are any; role bindings when there are any, then one call per API key
FollowUps(fn, d) ==
  IF fn = "roles" THEN << [part |-> "permissions", sub |-> ""] >>
  ELSE IF fn = "monitored_services"
       THEN (IF d.extra THEN << [part |-> "healthSources", sub |-> ""] >> ELSE <<>>)
  ELSE IF fn = "service_accounts"
       THEN (IF d.extra THEN << [part |-> "roleBindings", sub |-> ""] >> ELSE <<>>)
            \o [i \in 1..Len(d.subs) |-> [part |-> "apiKey", sub |-> d.subs[i]]]
  ELSE <<>>

\* calls that replace what the destination holds under the key: the upsert
\* endpoints, and the PUT / role-binding calls of the multi-step writes
Overwrites(fn, part) ==
  IF part = "main" THEN IsUpsert(fn) ELSE part # "apiKey"

\* a destination that accepts every create
RejectsNothing(fn, part) == FALSE

\* calls that the destination rejects when the resource is already there:
\* every POST create / import
RejectsExisting(fn, part) == ~Overwrites(fn, part)

\* the destination after it accepted a write of key: an overwrite leaves one
\* copy, a create adds one
Store(fn, key) ==
  IF BagIn(key, dest) /\ Overwrites(fn, key.part) THEN dest
  ELSE dest (+) SetToBag({key})

\* the text with which the destination rejects an existing resource
ExistsText(fn) ==
  IF fn \in ConnectorFns THEN {"cannot be used"}
  ELSE IF fn = "pipelines" THEN {"already exists or has been deleted"}
  ELSE IF fn = "triggers" THEN {"already exists or is soft deleted"}
  ELSE IF fn \in {"policies", "policy_sets"} THEN {"identifier must be unique"}
  ELSE IF fn \in SecretFns THEN {"already exists in this scope"}
  ELSE IF fn = "ip_allowlists" THEN {"already exists."}
  ELSE IF fn = "user_journeys" THEN {"e11000 duplicate key"}
  ELSE IF HasRemotePath(fn) THEN {"duplicate_file_import", "already been imported"}
  ELSE {"duplicate_field", "already exists"}

\* the response of the destination to a write of key; outcome "error" is an
\* injected hard error
WriteResponse(fn, key, outcome) ==
  IF outcome = "error" \/ destMode = "down"
  THEN [status |-> 500, text |-> {"internal server error"}]
  ELSE IF BagIn(key, dest) /\ RejectsExisting(fn, key.part)
  THEN (IF fn = "users" THEN [status |-> 200, text |-> {"user_already_added"}]
        ELSE IF fn = "user_journeys" THEN [status |-> 500, text |-> ExistsText(fn)]
        ELSE IF fn \in {"pipelines", "triggers"} THEN [status |-> 400, text |-> ExistsText(fn)]
        ELSE [status |-> 409, text |-> ExistsText(fn)])
  ELSE (IF fn = "users" THEN [status |-> 200, text |-> {"user_added_successfully"}]
        ELSE [status |-> 200, text |-> {}])

\* the success test of the create_* / import_* / update_* methods
Accepted(fn, resp) ==
  /\ resp.status \in {200, 201}
  /\ fn = "users" =>
       \E ok \in {"user_invited_successfully", "user_added_successfully"} : ok \in resp.text

\* one entry of the history of destination requests
Call(fn, key, resp) ==
  [ phase |-> phase, pkey |-> Key, fn |-> fn, key |-> key, status |-> resp.status,
    exists |-> is_resource_already_exists_error(resp.status, resp.text),
    accepted |-> Accepted(fn, resp),
    \* the method called: import_*_yaml on the Remote path, else create_*
    path |-> IF HasRemotePath(fn) /\ cur.remote THEN "import" ELSE "create",
    \* spec.value in the request body
    value |-> IF fn \in SecretFns THEN SentValue(cur.data) ELSE cur.data.value ]
\* a request that raised instead of returning a response
NoResponse == [status |-> 0, text |-> {}]

\* ------------------------------------------------------------------------
\* Initial states
\* ------------------------------------------------------------------------
Reverse(q) == [i \in 1..Len(q) |-> q[Len(q) + 1 - i]]
Last(q) == IF q = <<>> THEN 0 ELSE q[Len(q)]

\* the strictly increasing sequences of at most k indices into
\* ResourceTypeChoices
RECURSIVE IncSeqs(_)
IncSeqs(k) ==
  IF k = 0 THEN {<<>>}
  ELSE LET prev == IncSeqs(k - 1)
       IN  prev \cup UNION { { Append(q, i) : i \in (Last(q) + 1)..Len(ResourceTypeChoices) }
                             : q \in { r \in prev : Len(r) = k - 1 } }

\* the resource_types arguments explored: every selection of at most
\* MaxTypes types, given in the order of the command line choices and in the
\* opposite order
ResourceTypeLists ==
  LET names(q) == [i \in 1..Len(q) |-> ResourceTypeChoices[q[i]]]
  IN  UNION { { names(q), names(Reverse(q)) } : q \in IncSeqs(MaxTypes) }

ChoicePos(t) == CHOOSE i \in 1..Len(ResourceTypeChoices) : ResourceTypeChoices[i] = t

AllScopes == GetAllScopes(SrcOrganizations, SrcProjects)
\* the listings of every method at every scope, flattened
ListedItems(fn, sc) ==
  IF Nested(fn)
  THEN LET ps == SrcList(fn, sc)
       IN  Flatten([i \in 1..Len(ps) |-> SrcChildren(fn, sc, ps[i])])
  ELSE SrcList(fn, sc)
\* a destination that already holds every resource of the source tenant
AllMainKeys ==
  UNION { { DestKey(MigrateAllOrder[f].fn, AllScopes[c],
                    ListedItems(MigrateAllOrder[f].fn, AllScopes[c])[i], "main", "")
            : i \in 1..Len(ListedItems(MigrateAllOrder[f].fn, AllScopes[c])) }
          : f \in 1..NumPhases, c \in 1..Len(AllScopes) }
\* a destination that already holds the pipeline pl3 only
OnlyPl3 == { DestKey("pipelines", ProjScope, SrcPipelines[3], "main", "") }

NoCur == [data |-> NoItem, remote |-> FALSE, got |-> "none", exported |-> "none"]
Step(name, outcome) == [step |-> name, outcome |-> outcome]

\* the locals of a migrate_all invocation at its first statement
StartRun ==
  /\ pc = "select"
  /\ phase = 1
  /\ phaseStatus = [i \in 1..NumPhases |-> "NotStarted"]
  /\ scopes = <<>> /\ si = 1
  /\ parents = <<>> /\ pi = 1
  /\ items = <<>> /\ ii = 1
  /\ cur = NoCur
  /\ todo = <<>>
  /\ results = ZeroResults
  /\ all_results = [k \in {} |-> ZeroResults]
  /\ calls = <<>>
  /\ order = <<>> /\ listedCount = 0
  /\ last = Step("start", "ok")

\* One invocation of the tool.  Runs of one resource type are explored
\* against an empty, a partly filled and a full destination, against a
\* destination that fails every write, and with injected anomalies; runs of
\* several types against the empty destination.
Init ==
  /\ resource_types \in ResourceTypeLists
  /\ dry_run \in BOOLEAN
  /\ destMode \in {"up", "down"}
  /\ dest \in {EmptyBag, SetToBag(OnlyPl3), SetToBag(AllMainKeys)}
  /\ Len(resource_types) # 1 => dest = EmptyBag /\ destMode = "up"
  /\ faults = 0
  /\ StartRun
  /\ mode = "single"
  /\ destRef = EmptyBag
  /\ pg = PgIdle
  /\ frame = FrameIdle

\* ------------------------------------------------------------------------
\* migrate_all and the migrate_* methods
\* ------------------------------------------------------------------------
tenantVars == << resource_types, dry_run, destMode, mode, destRef, pg, frame >>
loopVars   == << scopes, si, parents, pi, items, ii, cur, todo >>

\* Anomalies are injected into the runs of one resource type against a
\* working destination, at most MaxFaults per run.
Budget ==
  IF mode = "single" /\ Len(resource_types) = 1 /\ destMode = "up" THEN MaxFaults ELSE 0
Anomalies(kinds) == IF faults < Budget THEN kinds ELSE {}
Spend(outcome) == faults' = IF outcome = "ok" THEN faults ELSE faults + 1

\* a runner without the dry-run guards
NeverSkipsWrite == FALSE

\* "if self.dry_run:" in front of every destination call of the migrate_*
\* methods (create_organization / create_project return before their request
\* when called with dry_run=True)
SkipsWrite == dry_run

\* an exception nobody catches leaves migrate_all; the process ends
Crash ==
  /\ pc' = "crashed"
  /\ UNCHANGED << phase, phaseStatus, loopVars, results, all_results >>

\* a phase that is never marked as returned
NeverReturned(status, i) == status
\* the migrate_* call of the i-th statement has returned
PhaseReturned(status, i) == [status EXCEPT ![i] = "Completed"]

\* "if '<rtype>' in resource_types:" is false
SkipPhase ==
  /\ pc = "select" /\ phase <= NumPhases
  /\ ~InList(PhaseAt(phase).rtype, resource_types)
  /\ phase' = phase + 1
  /\ last' = Step("SkipPhase", "ok")
  /\ UNCHANGED << pc, phaseStatus, loopVars, results, all_results, dest, calls,
                  order, listedCount, faults, tenantVars >>

\* "if '<rtype>' in resource_types:" is true: the migrate_* method is entered
BeginPhase ==
  /\ pc = "select" /\ phase <= NumPhases
  /\ InList(PhaseAt(phase).rtype, resource_types)
  /\ phaseStatus' = [phaseStatus EXCEPT ![phase] = "Running"]
  /\ results' = ZeroResults
  /\ order' = Append(order, Key)
  /\ listedCount' = 0
  /\ pc' = "scopes"
  /\ last' = Step("BeginPhase", "ok")
  /\ UNCHANGED << phase, loopVars, all_results, dest, calls, faults, tenantVars >>

\* "return all_results"
Return ==
  /\ pc = "select" /\ phase > NumPhases
  /\ pc' = "done"
  /\ last' = Step("Return", "ok")
  /\ UNCHANGED << phase, phaseStatus, loopVars, results, all_results, dest, calls,
                  order, listedCount, faults, tenantVars >>

\* scopes = self._get_all_scopes() / self._get_project_scopes(); the listing
\* methods they call return [] on a failed or raising request
EnumerateScopes ==
  /\ pc = "scopes"
  /\ \E outcome \in {"ok"} \cup Anomalies({"orgs_fail", "projects_fail"}) :
       LET orgs == IF outcome = "orgs_fail" THEN <<>> ELSE SrcOrganizations
           flat == IF outcome = "projects_fail" THEN <<>> ELSE SrcProjects
       IN  /\ ScopeKind(Fn) = "account" => outcome = "ok"
           /\ scopes' = IF ScopeKind(Fn) = "account" THEN << AccountScope >>
                        ELSE IF ScopeKind(Fn) = "all" THEN GetAllScopes(orgs, flat)
                        ELSE GetProjectScopes(orgs, flat)
           /\ Spend(outcome)
           /\ last' = Step("EnumerateScopes", outcome)
  /\ si' = 1
  /\ pc' = "list"
  /\ UNCHANGED << phase, phaseStatus, parents, pi, items, ii, cur, todo, results,
                  all_results, dest, calls, order, listedCount, tenantVars >>

\* the head of "for org_id, project_id in scopes": the list_* call of the
\* scope.  A failed request yields []; a raised one yields [] where the
\* list_* method catches it and leaves migrate_all where it does not.
ListScope ==
  /\ pc = "list" /\ si <= Len(scopes)
  /\ \E outcome \in {"ok"} \cup Anomalies({"fail", "raise"}) :
       LET listing == IF outcome = "ok" THEN SrcList(Fn, scopes[si]) ELSE <<>>
       IN  /\ Fn = "settings" => outcome = "ok"
           /\ Spend(outcome)
           /\ last' = Step("ListScope", outcome)
           /\ IF outcome = "raise" /\ ~ListCaught(Fn)
              THEN Crash
              ELSE /\ IF Nested(Fn)
                      THEN /\ parents' = IF Fn \in TemplateFns
                                         THEN TemplatesInOrder(Fn, listing) ELSE listing
                           /\ pi' = 1
                           /\ pc' = "sublist"
                           /\ UNCHANGED << items, ii >>
                      ELSE /\ items' = listing
                           /\ ii' = 1
                           /\ pc' = "item"
                           /\ UNCHANGED << parents, pi >>
                   /\ UNCHANGED << phase, phaseStatus, scopes, si, cur, todo, results,
                                   all_results >>
  /\ listedCount' = IF pc' = "item" THEN listedCount + Len(items') ELSE listedCount
  /\ UNCHANGED << dest, calls, order, tenantVars >>

\* the scopes are exhausted: "return results" and the assignment
\* all_results['<key>'] = ... in migrate_all
EndPhase ==
  /\ pc = "list" /\ si > Len(scopes)
  /\ all_results' = [k \in DOMAIN all_results \cup {Key} |->
                       IF k = Key THEN results ELSE all_results[k]]
  /\ phaseStatus' = PhaseReturned(phaseStatus, phase)
  /\ phase' = phase + 1
  /\ pc' = "select"
  /\ last' = Step("EndPhase", "ok")
  /\ UNCHANGED << loopVars, results, dest, calls, order, listedCount, faults, tenantVars >>

\* the head of the loop over the parents of a nested method: the inner
\* listing (list_infrastructures, list_input_sets + get_pipeline_data,
\* list_triggers, get_template_versions, list_settings)
ListChildren ==
  /\ pc = "sublist" /\ pi <= Len(parents)
  /\ \E outcome \in {"ok"} \cup Anomalies({"fail", "raise", "parent_nodata", "parent_raise"}) :
       LET parent   == parents[pi]
           children == IF outcome \in {"fail", "raise"} THEN <<>>
                       ELSE SrcChildren(Fn, scopes[si], parent)
           \* pipeline_is_gitx of migrate_input_sets
           pgitx    == outcome # "parent_nodata" /\ is_gitx_resource(parent)
       IN  /\ outcome \in {"parent_nodata", "parent_raise"} =>
                Fn = "input_sets" /\ children # <<>>
           /\ Spend(outcome)
           /\ last' = Step("ListChildren", outcome)
           /\ IF \/ outcome = "raise" /\ Fn \in TemplateFns
                 \/ outcome = "parent_raise"
              THEN Crash
              ELSE /\ items' = IF Fn = "input_sets"
                               THEN [i \in 1..Len(children) |->
                                       [children[i] EXCEPT !.pgitx = pgitx]]
                               ELSE children
                   /\ ii' = 1
                   /\ pc' = "item"
                   /\ results' = IF Fn \in TemplateFns /\ children = <<>>
                                 THEN Bump(results, "skipped", 1) ELSE results
                   /\ UNCHANGED << phase, phaseStatus, scopes, si, parents, pi, cur,
                                   todo, all_results >>
  /\ listedCount' = IF pc' = "item" THEN listedCount + Len(items') ELSE listedCount
  /\ UNCHANGED << dest, calls, order, tenantVars >>

\* the parents of the scope are exhausted: next scope
NextScope ==
  /\ pc = "sublist" /\ pi > Len(parents)
  /\ si' = si + 1
  /\ pc' = "list"
  /\ last' = Step("NextScope", "ok")
  /\ UNCHANGED << phase, phaseStatus, scopes, parents, pi, items, ii, cur, todo,
                  results, all_results, dest, calls, order, listedCount, faults, tenantVars >>

\* the items of the listing are exhausted: next parent or next scope
AdvanceLoop ==
  /\ pc = "item" /\ ii > Len(items)
  /\ IF Nested(Fn)
     THEN pi' = pi + 1 /\ pc' = "sublist" /\ si' = si
     ELSE si' = si + 1 /\ pc' = "list" /\ pi' = pi
  /\ last' = Step("AdvanceLoop", "ok")
  /\ UNCHANGED << phase, phaseStatus, scopes, parents, items, ii, cur, todo,
                  results, all_results, dest, calls, order, listedCount, faults, tenantVars >>

\* "continue" / the end of the loop body, with the counters as given
NextItem(res) ==
  /\ results' = res
  /\ ii' = ii + 1
  /\ pc' = "item"
  /\ cur' = NoCur
  /\ todo' = <<>>
  /\ UNCHANGED << phase, phaseStatus, scopes, si, parents, pi, items, all_results >>

\* The loop body up to the write: the guards on the list entry, the get_*
\* call, the guards on the fetched data and the export file.
\*   nodata        the get returned no data
\*   raise         the get raised (no get_* method catches)
\*   malformed     the organizations listing holds an entry without the
\*                 'organization' key: org.get('organization', '') is '' and
\*                 ''.get raises AttributeError
\*   empty         the organizations / projects listing holds an entry whose
\*                 'organization' / 'project' value is empty: the identifier
\*                 is '' and "if not org_data:" counts the entry failed
\*   export_raise  export_file.write_text raised
FetchItem ==
  /\ pc = "item" /\ ii <= Len(items)
  /\ \E outcome \in {"ok"} \cup Anomalies({"nodata", "raise", "malformed", "empty",
                                             "export_raise"}) :
       LET it    == items[ii]
           pre   == PreCheck(Fn, scopes[si], it)
           gets  == pre = "process" /\ GetMode(Fn) # "none"
           \* the data the body works with: the fetched resource, or the list
           \* entry where the method falls back to it
           data  == it
           post  == PostCheck(Fn, data)
       IN  /\ outcome = "malformed" => Fn = "organizations"
           /\ outcome = "empty" => Fn \in {"organizations", "projects"}
           /\ outcome \in {"nodata", "raise"} => gets
           /\ outcome = "export_raise" => pre = "process" /\ post = "write" /\ Exports(Fn, data)
           /\ Spend(outcome)
           /\ last' = Step("FetchItem", outcome)
           /\ IF outcome = "malformed" THEN Crash
              ELSE IF outcome = "empty" THEN NextItem(Bump(results, "failed", 1))
              ELSE IF pre = "skipped" THEN NextItem(Bump(results, "skipped", 1))
              ELSE IF pre = "continue" THEN NextItem(results)
              ELSE IF outcome = "raise" THEN Crash
              ELSE IF outcome = "nodata" /\ GetMode(Fn) = "required"
                   THEN NextItem(Bump(results, "failed", 1))
              ELSE IF outcome = "nodata" /\ GetMode(Fn) = "silent" THEN NextItem(results)
              ELSE IF post = "failed" THEN NextItem(Bump(results, "failed", 1))
              ELSE IF post = "skipped" THEN NextItem(Bump(results, "skipped", 1))
              ELSE IF post = "continue" THEN NextItem(results)
              ELSE IF outcome = "export_raise" /\ ~ExportCaught(Fn) THEN Crash
              ELSE /\ cur' = [data |-> data, remote |-> Remote(Fn, data),
                              got |-> IF outcome = "nodata" THEN "nodata"
                                      ELSE IF gets THEN "data" ELSE "none",
                              \* spec.value as the export file holds it
                              exported |-> IF outcome = "export_raise" \/ ~Exports(Fn, data)
                                           THEN "none"
                                           ELSE IF Fn \in SecretFns THEN Redacted(data.value)
                                           ELSE data.value]
                   /\ pc' = "write"
                   /\ UNCHANGED << phase, phaseStatus, scopes, si, parents, pi, items, ii,
                                   todo, results, all_results >>
  /\ UNCHANGED << dest, calls, order, listedCount, tenantVars >>

\* The write step of the loop body: nothing is sent in dry run, and nothing
\* by import_override_yaml without a connectorRef; otherwise the first (or
\* only) destination request of the item.
\*   error   the destination answers with a hard error
\*   raise   the request raises
Write ==
  /\ pc = "write"
  /\ LET d   == cur.data
         key == DestKey(Fn, scopes[si], d, "main", "")
     IN  IF SkipsWrite
         THEN /\ NextItem(Bump(results, "success", d.n))
              /\ last' = Step("Write", "dry")
              /\ UNCHANGED << dest, calls, faults >>
         ELSE IF Fn = "overrides" /\ cur.remote /\ ~d.connectorRef
         THEN /\ NextItem(Bump(results, "failed", 1))
              /\ last' = Step("Write", "norequest")
              /\ UNCHANGED << dest, calls, faults >>
         ELSE \E outcome \in {"ok"} \cup Anomalies({"error", "raise"}) :
                LET resp == IF outcome = "raise" THEN NoResponse
                            ELSE WriteResponse(Fn, key, outcome)
                    ok   == Accepted(Fn, resp)
                    more == FollowUps(Fn, d)
                IN  /\ Spend(outcome)
                    /\ last' = Step("Write", outcome)
                    /\ calls' = Append(calls, Call(Fn, key, resp))
                    /\ dest' = IF ok THEN Store(Fn, key) ELSE dest
                    /\ IF outcome = "raise" /\ ~WriteCaught(Fn, cur.remote)
                       THEN Crash
                       ELSE IF ~ok THEN NextItem(Bump(results, "failed", d.n))
                       ELSE IF more = <<>> THEN NextItem(Bump(results, "success", d.n))
                       ELSE /\ todo' = more
                            /\ pc' = "write2"
                            /\ UNCHANGED << phase, phaseStatus, scopes, si, parents, pi,
                                            items, ii, cur, results, all_results >>
  /\ UNCHANGED << order, listedCount, tenantVars >>

\* a write whose follow-up call never decides the result of the item
FollowUpNeverDecides(fn) == FALSE
\* create_role returns False when its PUT is not accepted, and migrate_roles
\* counts the role by that return value; migrate_service_accounts and
\* migrate_monitored_services print a warning for a failed follow-up and
\* count the item by its create call
FollowUpDecides(fn) == fn = "roles"

\* The next destination request of a multi-step write.  Only create_role
\* lets its outcome decide the result of the item; the others print a warning.
WriteFollowUp ==
  /\ pc = "write2"
  /\ \E outcome \in {"ok"} \cup Anomalies({"error", "raise"}) :
       LET t    == Head(todo)
           key  == DestKey(Fn, scopes[si], cur.data, t.part, t.sub)
           resp == IF outcome = "raise" THEN NoResponse
                   ELSE WriteResponse(Fn, key, outcome)
           ok   == Accepted(Fn, resp)
       IN  /\ Spend(outcome)
           /\ last' = Step("WriteFollowUp", outcome)
           /\ calls' = Append(calls, Call(Fn, key, resp))
           /\ dest' = IF ok THEN Store(Fn, key) ELSE dest
           /\ IF outcome = "raise" THEN Crash
              ELSE IF FollowUpDecides(Fn)
                   THEN NextItem(Bump(results, IF ok THEN "success" ELSE "failed", 1))
              ELSE IF Tail(todo) = <<>> THEN NextItem(Bump(results, "success", 1))
              ELSE /\ todo' = Tail(todo)
                   /\ UNCHANGED << pc, phase, phaseStatus, scopes, si, parents, pi, items,
                                   ii, cur, results, all_results >>
  /\ UNCHANGED << order, listedCount, tenantVars >>

\* ------------------------------------------------------------------------
\* Spec: one invocation of migrate_all
\* ------------------------------------------------------------------------
Next ==
  \/ SkipPhase
  \/ BeginPhase
  \/ EnumerateScopes
  \/ ListScope
  \/ ListChildren
  \/ NextScope
  \/ FetchItem
  \/ AdvanceLoop
  \/ Write
  \/ WriteFollowUp
  \/ EndPhase
  \/ Return

Spec == Init /\ [][Next]_vars

TypeOK ==
  /\ pc \in {"select", "scopes", "list", "sublist", "item", "write", "write2", "done", "crashed"}
  /\ phase \in 1..(NumPhases + 1)
  /\ faults \in 0..MaxFaults
  /\ DOMAIN all_results \subseteq PhaseKeys

\* ------------------------------------------------------------------------
\* SpecRerun: the tool is run again
\* ------------------------------------------------------------------------
\* The first invocation ("reference") runs to its end against an empty
\* destination, and destRef records what it leaves there.  Then either the
\* tool is run a second time against that destination ("second"), or the
\* destination is emptied and the tool is run again and may be killed at
\* any control point ("victim"), after which it is run once more from phase 1
\* against what the killed run left ("recover").
\* (the selections are given in the order of the command line choices)
InitRerun ==
  /\ resource_types \in { q \in ResourceTypeLists :
                            \A i, j \in 1..Len(q) : i < j => ChoicePos(q[i]) < ChoicePos(q[j]) }
  /\ dry_run = FALSE
  /\ destMode = "up"
  /\ dest = EmptyBag
  /\ faults = 0
  /\ StartRun
  /\ mode = "reference"
  /\ destRef = EmptyBag
  /\ pg = PgIdle
  /\ frame = FrameIdle

\* a fresh process: the locals of migrate_all at its first statement
Restart ==
  /\ pc' = "select"
  /\ phase' = 1
  /\ phaseStatus' = [i \in 1..NumPhases |-> "NotStarted"]
  /\ scopes' = <<>> /\ si' = 1
  /\ parents' = <<>> /\ pi' = 1
  /\ items' = <<>> /\ ii' = 1
  /\ cur' = NoCur
  /\ todo' = <<>>
  /\ results' = ZeroResults
  /\ all_results' = [k \in {} |-> ZeroResults]
  /\ calls' = <<>>
  /\ order' = <<>> /\ listedCount' = 0
  /\ UNCHANGED << resource_types, dry_run, destMode, faults, pg, frame >>

\* the tool is invoked a second time against the same destination
RunAgain ==
  /\ mode = "reference" /\ pc = "done"
  /\ mode' = "second"
  /\ destRef' = dest
  /\ dest' = dest
  /\ last' = Step("RunAgain", "ok")
  /\ Restart

\* the tool is invoked against a destination that is empty again
StartOver ==
  /\ mode = "reference" /\ pc = "done"
  /\ mode' = "victim"
  /\ destRef' = dest
  /\ dest' = EmptyBag
  /\ last' = Step("StartOver", "ok")
  /\ Restart

\* the process is killed between two steps and the tool is run again
KillAndRerun ==
  /\ mode = "victim" /\ pc \notin {"done", "crashed"}
  /\ mode' = "recover"
  /\ last' = Step("KillAndRerun", pc)
  /\ UNCHANGED << dest, destRef >>
  /\ Restart

NextRerun ==
  \/ SkipPhase
  \/ BeginPhase
  \/ EnumerateScopes
  \/ ListScope
  \/ ListChildren
  \/ NextScope
  \/ FetchItem
  \/ AdvanceLoop
  \/ Write
  \/ WriteFollowUp
  \/ EndPhase
  \/ Return
  \/ RunAgain
  \/ StartOver
  \/ KillAndRerun

SpecRerun == InitRerun /\ [][NextRerun]_vars

\* ------------------------------------------------------------------------
\* SpecPage: _fetch_paginated against a listing endpoint
\* ------------------------------------------------------------------------
\* "if page > 10000:"
page_limit == 10000

Min(a, b) == IF a < b THEN a ELSE b

\* The endpoint: it holds the items 0 .. N-1 and answers a request for
\* `size` items starting at item `start` with the items it has there.
ServeFrom(N, start, size) ==
  [i \in 1..(IF start >= N THEN 0 ELSE Min(N, start + size) - start) |-> start + i - 1]

\* request_params[page_param_name] = pagination_value: a page number, or an
\* offset where use_offset is set; the endpoint reads it accordingly
PaginationValue(use_offset, page, page_size) ==
  IF use_offset THEN page * page_size ELSE page
PageContent(N, use_offset, value, size) ==
  ServeFrom(N, IF use_offset THEN value ELSE value * size, size)

\* the endpoint that never runs out: `size` items from wherever it is asked
EndlessContent(use_offset, value, size) ==
  LET start == IF use_offset THEN value ELSE value * size
  IN  [i \in 1..size |-> start + i - 1]

\* data.totalPages as the endpoint reports it, when it reports it
TotalPages(N, size) == (N + size - 1) \div size

\* a loop that also stops at a full page
PageIsShortOrFull(content, page_size) == Len(content) <= page_size

\* "if len(content) < page_size: break"
PageIsShort(content, page_size) == Len(content) < page_size

\* a loop that does not look at the total-pages value
TotalPagesIgnored(total_pages, page) == FALSE

\* "if total_pages is not None and page >= total_pages - 1: break"
\* (total_pages is << >> for None, << n >> for the integer n)
LastPageReached(total_pages, page) ==
  total_pages # << >> /\ page >= total_pages[1] - 1

\* q without the later occurrences of its items
RECURSIVE Distinct(_)
Distinct(q) ==
  IF q = <<>> THEN <<>>
  ELSE LET r == Distinct(SubSeq(q, 1, Len(q) - 1))
           x == q[Len(q)]
       IN  IF \E i \in 1..Len(r) : r[i] = x THEN r ELSE Append(r, x)

\* a loop that drops the items it already has
KeptWithoutDuplicates(q) == Distinct(SubSeq(q, 1, IF Len(q) < 2 * MaxItems + MaxPageSize THEN Len(q) ELSE 2 * MaxItems + MaxPageSize))

\* all_items.extend(content), of which the model keeps the first MaxKept
\* items: more than any listing of a finite endpoint holds
MaxKept == 2 * MaxItems + MaxPageSize
Kept(q) == SubSeq(q, 1, Min(Len(q), MaxKept))

\* a loop that goes on after a failed page
StatusNeverStops(status_code) == FALSE

\* "if response.status_code != 200: ... break"
StatusStops(status_code) == status_code # 200

\* an endpoint whose consecutive pages share `overlap` items: page k starts
\* `overlap` items before the end of page k-1 (overlap 0 is PageContent)
OverlappingContent(N, use_offset, value, size, overlap) ==
  LET k == IF use_offset THEN value \div size ELSE value
  IN  ServeFrom(N, k * (size - overlap), size)

\* Python objects: a dict is its set of << key, value >> entries; None and
\* a str body have no entries
Dict(fields) == [kind |-> "dict", fields |-> fields]
NoneObj == [kind |-> "None", fields |-> {}]
StrObj == [kind |-> "str", fields |-> {}]
\* "isinstance(data, dict)"
IsDict(obj) == obj.kind = "dict"
\* d[k] = v
SetItem(obj, k, v) ==
  [obj EXCEPT !.fields = { e \in @ : e[1] # k } \cup { << k, v >> }]

\* the objects a call passes: params with one query field, and the body
\* its convention has (None, a raw string, or a dict with one filter field)
CallerParams == Dict({ << "searchTerm", 1 >> })
CallerData(kind) ==
  IF kind = "dict" THEN Dict({ << "filterType", 1 >> })
  ELSE IF kind = "str" THEN StrObj ELSE NoneObj

\* the objects of one call: the caller's two, and the two of an iteration
\* before it has built them
HeapOf(kind) ==
  [params |-> CallerParams, data |-> CallerData(kind),
   request_params |-> NoneObj, request_data |-> NoneObj]

\* "request_params = params.copy()": the iteration's own object
RequestParamsObject == "request_params"

\* "if pagination_in_body and isinstance(data, dict):"
PaginationGoesInBody(pagination_in_body, data) == pagination_in_body /\ IsDict(data)

\* lines 221-231: the request objects of one iteration.  In the body branch
\* request_data is a copy of data that gets both fields; in the other
\* branch request_params gets them and request_data is data itself.
BuildRequest(heap, pagination_in_body, pagination_value, page_size) ==
  LET in_body == PaginationGoesInBody(pagination_in_body, heap.data)
      pref    == RequestParamsObject
      dref    == IF in_body THEN "request_data" ELSE "data"
      copied  == IF in_body
                 THEN [[heap EXCEPT !.request_data = heap.data]
                          EXCEPT ![pref] = heap.params]
                 ELSE [heap EXCEPT ![pref] = heap.params]
      target  == IF in_body THEN dref ELSE pref
      filled  == [copied EXCEPT ![target] =
                    SetItem(SetItem(@, "page_param_name", pagination_value),
                            "size_param_name", page_size)]
  IN  [heap |-> filled, params |-> pref, data |-> dref]

\* _make_request: "params['accountIdentifier'] = self.account_id" on the
\* params object it is given, then the request with those params and body
MakeRequest(heap, pref, dref) ==
  LET after == [heap EXCEPT ![pref] = SetItem(@, "accountIdentifier", 1)]
  IN  [heap |-> after, query |-> after[pref], body |-> after[dref]]

\* the call: all_items = [], page = 0.  failAt is the request (counted from
\* 0) the endpoint answers with a non-200 status, or -1 for none.  An
\* endless endpoint answers every request with a full page and no
\* total-pages value.  skew is what the endpoint's total-pages value is off
\* by, overlap the number of items consecutive pages share.  req and resp
\* are the last request sent and the answer to it.  delays counts the
\* time.sleep calls of the call.  ov holds the locals of list_overrides,
\* which is called after _fetch_paginated has returned, against the same
\* endpoint, where the call has the convention of list_overrides (page and
\* size in the query, no body).
PageCall(endless, N, P, hasTotal, use_offset, failAt, in_body, kind, skew, overlap) ==
  [state |-> "loop", endless |-> endless, N |-> N, page_size |-> P,
   hasTotal |-> hasTotal, use_offset |-> use_offset, failAt |-> failAt,
   pagination_in_body |-> in_body, data_kind |-> kind, skew |-> skew,
   overlap |-> overlap, heap |-> HeapOf(kind),
   req |-> [query |-> NoneObj, body |-> NoneObj],
   resp |-> [status |-> 0, batch |-> 0, total_pages |-> << >>],
   delays |-> 0,
   ov |-> [state |-> IF ~use_offset /\ ~in_body /\ kind = "None" THEN "waiting" ELSE "off",
           page |-> 0, all_items |-> <<>>, requests |-> 0], page |-> 0, all_items |-> <<>>, requests |-> 0]

InitPage ==
  /\ resource_types = <<>>
  /\ dry_run = FALSE
  /\ destMode = "up"
  /\ dest = EmptyBag
  /\ faults = 0
  /\ StartRun
  /\ mode = "page"
  /\ destRef = EmptyBag
  /\ frame = FrameIdle
  /\ \/ \E N \in 0..MaxItems, P \in 1..MaxPageSize, hasTotal \in BOOLEAN,
           use_offset \in BOOLEAN, failAt \in -1..1, in_body \in BOOLEAN,
           kind \in {"None", "str", "dict"} :
          pg = PageCall(FALSE, N, P, hasTotal, use_offset, failAt, in_body, kind, 0, 0)
     \/ \E N \in 0..MaxItems, P \in 1..MaxPageSize, use_offset \in BOOLEAN,
           skew \in {-1, 1} :
          pg = PageCall(FALSE, N, P, TRUE, use_offset, -1, FALSE, "None", skew, 0)
     \/ \E N \in 0..MaxItems, P \in 2..MaxPageSize, hasTotal \in BOOLEAN,
           use_offset \in BOOLEAN :
          pg = PageCall(FALSE, N, P, hasTotal, use_offset, -1, FALSE, "None", 0, 1)
     \/ \E P \in 1..MaxPageSize, use_offset \in BOOLEAN :
          pg = PageCall(TRUE, 0, P, FALSE, use_offset, -1, FALSE, "None", 0, 0)

\* one iteration of "while True:": a request, its answer, and one of the
\* four exits or "page += 1".  No statement of the loop sleeps, so delays
\* stays as it is.
FetchPage ==
  /\ pg.state = "loop"
  /\ LET value       == PaginationValue(pg.use_offset, pg.page, pg.page_size)
         built       == BuildRequest(pg.heap, pg.pagination_in_body, value, pg.page_size)
         request     == MakeRequest(built.heap, built.params, built.data)
         status      == IF pg.requests = pg.failAt THEN 500 ELSE 200
         content     == IF pg.endless
                        THEN EndlessContent(pg.use_offset, value, pg.page_size)
                        ELSE IF pg.overlap = 0
                        THEN PageContent(pg.N, pg.use_offset, value, pg.page_size)
                        ELSE OverlappingContent(pg.N, pg.use_offset, value,
                                                pg.page_size, pg.overlap)
         total_pages == IF pg.hasTotal
                        THEN << TotalPages(pg.N, pg.page_size) + pg.skew >>
                        ELSE << >>
         sent        == [pg EXCEPT !.requests = @ + 1,
                                   !.heap = request.heap,
                                   !.req = [query |-> request.query, body |-> request.body],
                                   !.resp = [status |-> status,
                                             batch |-> IF status = 200 THEN Len(content) ELSE 0,
                                             total_pages |-> IF status = 200 THEN total_pages
                                                             ELSE << >>]]
         got         == [sent EXCEPT !.all_items = Kept(@ \o content)]
     IN  pg' = IF StatusStops(status) THEN [sent EXCEPT !.state = "returned"]
               ELSE IF PageIsShort(content, pg.page_size)
                    THEN [got EXCEPT !.state = "returned"]
               ELSE IF LastPageReached(total_pages, pg.page)
                    THEN [got EXCEPT !.state = "returned"]
               ELSE IF pg.page + 1 > page_limit
                    THEN [got EXCEPT !.page = @ + 1, !.state = "returned"]
               ELSE [got EXCEPT !.page = @ + 1]
  /\ UNCHANGED << resource_types, dry_run, destMode, mode, destRef, faults, pc, phase,
                  phaseStatus, loopVars, results, all_results, dest, calls, order,
                  listedCount, last,
                  frame >>

\* list_overrides: "if total_pages is not None: if page >= total_pages - 1:
\* break / elif len(content) < page_size: break"
OverridesStops(total_pages, content, page, page_size) ==
  IF total_pages # << >> THEN page >= total_pages[1] - 1
  ELSE Len(content) < page_size

\* one iteration of the "while True:" of list_overrides
OverridesPage ==
  /\ pg.state = "returned" /\ pg.ov.state \in {"waiting", "loop"}
  /\ LET ov          == pg.ov
         status      == IF ov.requests = pg.failAt THEN 500 ELSE 200
         content     == IF pg.endless
                        THEN EndlessContent(FALSE, ov.page, pg.page_size)
                        ELSE IF pg.overlap = 0
                        THEN PageContent(pg.N, FALSE, ov.page, pg.page_size)
                        ELSE OverlappingContent(pg.N, FALSE, ov.page, pg.page_size, pg.overlap)
         total_pages == IF pg.hasTotal
                        THEN << TotalPages(pg.N, pg.page_size) + pg.skew >>
                        ELSE << >>
         sent        == [ov EXCEPT !.requests = @ + 1, !.state = "loop"]
         got         == [sent EXCEPT !.all_items = Kept(@ \o content)]
     IN  pg' = [pg EXCEPT !.ov =
                  IF status # 200 THEN [sent EXCEPT !.state = "returned"]
                  ELSE IF OverridesStops(total_pages, content, ov.page, pg.page_size)
                       THEN [got EXCEPT !.state = "returned"]
                  ELSE IF ov.page + 1 > page_limit
                       THEN [got EXCEPT !.page = @ + 1, !.state = "returned"]
                  ELSE [got EXCEPT !.page = @ + 1]]
  /\ UNCHANGED << resource_types, dry_run, destMode, mode, destRef, faults, pc, phase,
                  phaseStatus, loopVars, results, all_results, dest, calls, order,
                  listedCount, last,
                  frame >>

NextPage == FetchPage \/ OverridesPage

SpecPage == InitPage /\ [][NextPage]_vars

\* ------------------------------------------------------------------------
\* SpecCall: one call of a helper, on arguments of its whole domain
\* ------------------------------------------------------------------------
\* the phrases response bodies are made of: the codes and messages
\* is_resource_already_exists_error looks for, and two it does not
BodyPhrases ==
  { specific_error_codes[i] : i \in 1..Len(specific_error_codes) }
  \cup { definitive_error_messages[i] : i \in 1..Len(definitive_error_messages) }
  \cup { "is required", "ok" }
BodyWords == [phrase : BodyPhrases, upper : BOOLEAN]
\* the bodies of at most MaxWords words
RECURSIVE BodiesUpTo(_)
BodiesUpTo(k) ==
  IF k = 0 THEN { {} }
  ELSE LET prev == BodiesUpTo(k - 1)
       IN  prev \cup { b \cup {w} : b \in prev, w \in BodyWords }
Bodies == BodiesUpTo(MaxWords)
StatusCodes == {200, 201, 400, 404, 409, 500}

\* the helper has not run yet; the rest of the program is not running
CallInit(f) ==
  /\ resource_types = <<>>
  /\ dry_run = FALSE
  /\ destMode = "up"
  /\ dest = EmptyBag
  /\ faults = 0
  /\ StartRun
  /\ mode = "call"
  /\ destRef = EmptyBag
  /\ pg = PgIdle
  /\ frame = f

ClassifyInputs ==
  { [state |-> "called", fn |-> "is_resource_already_exists_error",
     status_code |-> c, response_text |-> b] : c \in StatusCodes, b \in Bodies }

\* resource_data dictionaries: every field absent, present with a falsy
\* value, or present with a truthy one
FieldStates == {"absent", "empty", "full"}
GitxInputs ==
  { [state |-> "called", fn |-> "is_gitx_resource", storeType |-> st,
     gitDetails |-> g, entityGitDetails |-> e, repo |-> r, branch |-> b, yaml |-> y]
    : st \in {"absent", "", "REMOTE", "INLINE"},
      g \in FieldStates \cup {"partial"}, e \in FieldStates \cup {"partial"},
      r \in FieldStates, b \in FieldStates, y \in FieldStates }
\* the dictionary of a frame: "'repo' in resource_data or 'branch' in
\* resource_data" asks for the keys only
ResourceData(f) ==
  [Item("r") EXCEPT !.storeType = f.storeType, !.gitDetails = f.gitDetails,
                    !.entityGitDetails = f.entityGitDetails,
                    !.repoBranch = (f.repo # "absent" \/ f.branch # "absent"),
                    !.yaml = f.yaml]

\* A listing request of the scope enumeration goes wrong in one of two ways:
\* page `page` answers with a non-success status ("status") or the request
\* for it raises ("raise").
NoFault == [kind |-> "none", page |-> 0]
ListingFaults ==
  {NoFault, [kind |-> "raise", page |-> 0]} \cup [kind : {"status"}, page : 0..1]
\* a listing that gives back everything whatever went wrong
ListedWhole(served, fault) == served
\* What list_organizations / list_projects return of the entries the tenant
\* holds: _fetch_paginated breaks out of its loop at a non-success page and
\* returns the pages before it; an exception leaves _fetch_paginated and the
\* list_* method returns [].
Listed(served, fault) ==
  IF fault.kind = "raise" THEN <<>>
  ELSE IF fault.kind = "status"
       THEN SubSeq(served, 1, Min(Len(served), fault.page * ListedPerPage))
  ELSE served

\* listing entries, reduced to the identifiers the enumeration reads: ""
\* is a missing or empty 'identifier' / 'orgIdentifier', None a null one
ListedOrgOrder == << "o1", "o2" >>
ListedOrgIds == { ListedOrgOrder[i] : i \in 1..Len(ListedOrgOrder) }
OrgEntries == [id : {""} \cup ListedOrgIds]
ProjectEntries == [id : {"", "p1"}, org : {None, ""} \cup ListedOrgIds]
ProjectEntriesOfOrgs == [id : {"", "p1"}, org : ListedOrgIds]

\* the listings of n organizations and m projects
OrgListings(n) == [1..n -> OrgEntries]
ProjectListings(m) == [1..m -> ProjectEntries]
ProjectListingsOfOrgs(m) == [1..m -> ProjectEntriesOfOrgs]

\* list_projects(org_id): the projects of org_id the tenant holds
ProjectsOf(projects, o) == SelectSeq(projects, LAMBDA p : p.org = o)
\* what the list_projects(org_id) calls of one enumeration return, one
\* organization after the other
ListedByOrg(projects, faultOf) ==
  LET of(o) == Listed(ProjectsOf(projects, o), faultOf[o])
  IN  Flatten(MapSeq(of, ListedOrgOrder))

callFrame == << resource_types, dry_run, destMode, mode, destRef, faults, pc, phase,
               phaseStatus, loopVars, results, all_results, dest, calls, order,
               listedCount, last, pg >>

\* is_resource_already_exists_error(status_code, response_text) returns
Classify ==
  /\ frame.state = "called" /\ frame.fn = "is_resource_already_exists_error"
  /\ frame' = [state |-> "returned", fn |-> frame.fn,
               status_code |-> frame.status_code, response_text |-> frame.response_text,
               result |-> is_resource_already_exists_error(
                            frame.status_code, Lower(frame.response_text))]
  /\ UNCHANGED callFrame

\* is_gitx_resource(resource_data) returns
DetectStorage ==
  /\ frame.state = "called" /\ frame.fn = "is_gitx_resource"
  /\ frame' = [frame EXCEPT !.state = "returned"]
               @@ [result |-> is_gitx_resource(ResourceData(frame))]
  /\ UNCHANGED callFrame

\* _get_all_scopes() returns
AllScopesCall ==
  /\ frame.state = "called" /\ frame.fn = "_get_all_scopes"
  /\ frame' = [frame EXCEPT !.state = "returned"]
               @@ [result |-> GetAllScopes(Listed(frame.organizations, frame.orgFault),
                                           Listed(frame.projects, frame.projFault))]
  /\ UNCHANGED callFrame

\* _get_project_scopes() returns
ProjectScopesCall ==
  /\ frame.state = "called" /\ frame.fn = "_get_project_scopes"
  /\ frame' = [frame EXCEPT !.state = "returned"]
               @@ [result |-> GetProjectScopes(
                                Listed(frame.organizations, frame.orgFault),
                                ListedByOrg(frame.projects, frame.projFault))]
  /\ UNCHANGED callFrame

\* _get_project_scopes lists the projects of each organization on its own:
\* projFault gives the fault of each of these listings
InitCall ==
  \/ \E f \in ClassifyInputs : CallInit(f)
  \/ \E f \in GitxInputs : CallInit(f)
  \/ \E n \in 0..MaxListed : \E m \in 0..(MaxListed - n) :
       \E os \in OrgListings(n), fo \in ListingFaults :
         \/ \E ps \in ProjectListings(m), fp \in ListingFaults :
              CallInit([state |-> "called", fn |-> "_get_all_scopes",
                        organizations |-> os, projects |-> ps,
                        orgFault |-> fo, projFault |-> fp])
         \/ \E ps \in ProjectListingsOfOrgs(m), fp \in [ListedOrgIds -> ListingFaults] :
              CallInit([state |-> "called", fn |-> "_get_project_scopes",
                        organizations |-> os, projects |-> ps,
                        orgFault |-> fo, projFault |-> fp])

NextCall ==
  \/ Classify
  \/ DetectStorage
  \/ AllScopesCall
  \/ ProjectScopesCall

SpecCall == InitCall /\ [][NextCall]_vars

\* ------------------------------------------------------------------------
\* Properties
\* ------------------------------------------------------------------------
\* the destination request of the step just taken, if it made one
Wrote == Len(calls') = Len(calls) + 1
LastCall == calls'[Len(calls')]

\* C1: in a non-dry run, a write that the destination refuses with a response
\* classified as already-exists adds one to 'skipped' and nothing to
\* 'failed'; the pipelines phase over pl1 (Remote), pl2 (Inline) and pl3
\* (Inline, already at the destination) returns {success 2, failed 0,
\* skipped 1}.
C1_ExistsCountsSkipped ==
  /\ [][ (~dry_run /\ Wrote /\ LastCall.exists /\ ~LastCall.accepted /\ pc' # "crashed")
           => /\ results'.skipped = results.skipped + 1
              /\ results'.failed = results.failed ]_vars
  /\ [](( /\ resource_types = << "pipelines" >> /\ ~dry_run /\ destMode = "up"
          /\ faults = 0 /\ pc = "done"
          /\ BagToSet(dest) = { DestKey("pipelines", ProjScope, SrcPipelines[i], "main", "")
                                  : i \in 1..3 }
          /\ Len(calls) = 3 /\ calls[3].exists )
         => all_results["pipelines"] = [success |-> 2, failed |-> 0, skipped |-> 1])

\* C2: a run killed at any control point and followed by a run from phase 1
\* leaves the destination as one uninterrupted run leaves it.
C2_RerunAfterKill ==
  (mode = "recover" /\ pc = "done") => dest = destRef

\* C3: a second complete run against the destination the first complete run
\* left changes nothing there: the same resources, one copy of each.
C3_SecondRunIdempotent ==
  (mode = "second" /\ pc = "done") => dest = destRef

\* a second run has ended after sending creates for resources that exist
C3_Witness ==
  /\ mode = "second" /\ pc = "done"
  /\ dest # EmptyBag
  /\ \E i \in 1..Len(calls) : calls[i].exists /\ ~calls[i].accepted

\* the phase order as the documentation lists it
C4Order ==
  << "organizations", "projects", "secret_manager_templates",
     "custom_secret_manager_connectors", "harness_secret_manager_secrets",
     "secret_manager_connectors", "secrets", "connectors",
     "deployment_artifact_templates", "environments", "infrastructures",
     "services", "overrides", "monitored_services", "user_journeys", "templates",
     "pipelines", "input_sets", "triggers", "webhooks", "policies", "policy_sets",
     "roles", "resource_groups", "settings", "ip_allowlists", "users",
     "service_accounts" >>
C4Pos(k) == CHOOSE i \in 1..Len(C4Order) : C4Order[i] = k
\* the phases a resource_types argument selects
SelectedKeys(types) ==
  { MigrateAllOrder[i].key : i \in { j \in 1..NumPhases : InList(MigrateAllOrder[j].rtype, types) } }

\* C4: the phases are entered in the fixed order, whatever the order of the
\* resource_types argument: the entered phases are selected ones, at strictly
\* increasing positions of the fixed list, and a run that returns has entered
\* every selected phase.
C4_FixedPhaseOrder ==
  /\ \A i \in 1..Len(order) : order[i] \in SelectedKeys(resource_types)
  /\ \A i, j \in 1..Len(order) : i < j => C4Pos(order[i]) < C4Pos(order[j])
  /\ pc = "done" => { order[i] : i \in 1..Len(order) } = SelectedKeys(resource_types)

\* a run given its two types against the fixed order has returned
C4_Witness ==
  /\ pc = "done" /\ mode = "single"
  /\ resource_types = << "pipelines", "templates" >>
  /\ order = << "secret_manager_templates", "deployment_artifact_templates",
                "templates", "pipelines" >>

\* the (prerequisite, dependent) pairs of phases
C5Pairs ==
  LET scoped == { C4Order[i] : i \in 3..Len(C4Order) }
      tmpl   == { "secret_manager_templates", "deployment_artifact_templates", "templates" }
  IN  { << "organizations", "projects" >> }
      \cup { << "projects", k >> : k \in scoped }
      \cup { << "harness_secret_manager_secrets", "secret_manager_connectors" >>,
             << "secret_manager_connectors", "secrets" >>,
             << "secrets", "connectors" >>,
             << "environments", "infrastructures" >>,
             << "environments", "overrides" >>,
             << "infrastructures", "overrides" >>,
             << "services", "overrides" >>,
             << "services", "monitored_services" >>,
             << "environments", "monitored_services" >>,
             << "pipelines", "input_sets" >>,
             << "input_sets", "triggers" >>,
             << "policies", "policy_sets" >> }
      \cup { << t, "pipelines" >> : t \in tmpl }
      \cup ({ "roles", "resource_groups" } \X { "users", "service_accounts" })

\* C5: no destination write of a dependent phase precedes a destination write
\* of one of its prerequisite phases.
C5_PrerequisitesFirst ==
  \A i, j \in 1..Len(calls) :
    << calls[j].pkey, calls[i].pkey >> \in C5Pairs => j < i

\* both phases of a pair have written, the prerequisite first
C5_Witness ==
  /\ pc = "done"
  /\ \E i, j \in 1..Len(calls) :
       /\ i < j
       /\ calls[i].pkey = "roles" /\ calls[j].pkey = "service_accounts"
       /\ calls[i].accepted /\ calls[j].accepted

\* C6: a request that raises never ends the run: migrate_all goes on to the
\* next item, scope and phase.
C6_RaiseNeverAborts ==
  last.outcome \in {"raise", "parent_raise"} => pc # "crashed"

\* C7: in every phase, a get that returns no data for a listed item adds one
\* to 'failed', sends no write for the item, and the loop goes on to the next
\* item of the listing.
C7_GetNoDataCountsFailed ==
  [][ (last'.step = "FetchItem" /\ last'.outcome = "nodata")
        => /\ results'.failed = results.failed + 1
           /\ pc' = "item" /\ ii' = ii + 1
           /\ calls' = calls ]_vars

\* C8: provided every request returns a response, whatever its status, the
\* run is never aborted: it can only end by returning the result map.
C8_ResponsesNeverAbort ==
  pc = "crashed" => last.outcome \in {"raise", "parent_raise"}

\* the counters of a dry run, from the source tenant alone
Plus(a, b) ==
  [success |-> a.success + b.success, failed |-> a.failed + b.failed,
   skipped |-> a.skipped + b.skipped]
RECURSIVE Total(_)
Total(q) == IF q = <<>> THEN ZeroResults ELSE Plus(Head(q), Total(Tail(q)))
DryItem(fn, sc, it) ==
  LET pre  == PreCheck(fn, sc, it)
      post == PostCheck(fn, it)
  IN  IF pre = "skipped" THEN Bump(ZeroResults, "skipped", 1)
      ELSE IF pre = "continue" THEN ZeroResults
      ELSE IF post = "failed" THEN Bump(ZeroResults, "failed", 1)
      ELSE IF post = "skipped" THEN Bump(ZeroResults, "skipped", 1)
      ELSE IF post = "continue" THEN ZeroResults
      ELSE Bump(ZeroResults, "success", it.n)
DryParent(fn, sc, parent) ==
  LET listed   == SrcChildren(fn, sc, parent)
      children == IF fn = "input_sets"
                  THEN [i \in 1..Len(listed) |->
                          [listed[i] EXCEPT !.pgitx = is_gitx_resource(parent)]]
                  ELSE listed
  IN  IF fn \in TemplateFns /\ children = <<>> THEN Bump(ZeroResults, "skipped", 1)
      ELSE Total([i \in 1..Len(children) |-> DryItem(fn, sc, children[i])])
DryScope(fn, sc) ==
  LET listing == SrcList(fn, sc)
      parents_ == IF fn \in TemplateFns THEN TemplatesInOrder(fn, listing) ELSE listing
  IN  IF Nested(fn)
      THEN Total([i \in 1..Len(parents_) |-> DryParent(fn, sc, parents_[i])])
      ELSE Total([i \in 1..Len(listing) |-> DryItem(fn, sc, listing[i])])
DryPhase(fn) ==
  LET scs == IF ScopeKind(fn) = "account" THEN << AccountScope >>
             ELSE IF ScopeKind(fn) = "all" THEN GetAllScopes(SrcOrganizations, SrcProjects)
             ELSE GetProjectScopes(SrcOrganizations, SrcProjects)
  IN  Total([i \in 1..Len(scs) |-> DryScope(fn, scs[i])])
DryExpected(types) ==
  [k \in SelectedKeys(types) |->
     DryPhase(MigrateAllOrder[CHOOSE i \in 1..NumPhases : MigrateAllOrder[i].key = k].fn)]

\* C9: a dry run sends nothing to the destination, every item that reaches
\* the write step counts as a success, and the result map is a function of
\* the source tenant only (the same for every destination).
C9_DryRunTouchesNothing ==
  dry_run =>
    /\ calls = <<>>
    /\ last.step = "Write" => last.outcome = "dry"
    /\ (pc = "done" /\ faults = 0) => all_results = DryExpected(resource_types)

\* a dry run against a destination that is not empty has returned successes
C9_Witness ==
  /\ dry_run /\ pc = "done" /\ faults = 0
  /\ dest # EmptyBag
  /\ \E k \in DOMAIN all_results : all_results[k].success > 0

Ceil(n, d) == (n + d - 1) \div d
Returned ==
  /\ pg.state = "returned" /\ pg.failAt = -1 /\ ~pg.endless
  /\ pg.skew = 0 /\ pg.overlap = 0

\* C10 as stated: the N items are returned with ceil(N/P) requests (1 when
\* N = 0), with or without a total-pages field.
C10_CeilRequests ==
  Returned =>
    /\ pg.all_items = [i \in 1..pg.N |-> i - 1]
    /\ pg.requests = IF pg.N = 0 THEN 1 ELSE Ceil(pg.N, pg.page_size)

\* C10, amended: the N items are returned; the requests are ceil(N/P) (1
\* when N = 0), except that a listing of a positive multiple of P items
\* whose responses carry no total-pages value takes N/P + 1 requests.
C10_RequestsAmended ==
  Returned =>
    /\ pg.all_items = [i \in 1..pg.N |-> i - 1]
    /\ pg.requests =
         IF pg.N = 0 THEN 1
         ELSE IF pg.N % pg.page_size = 0 /\ ~pg.hasTotal THEN pg.N \div pg.page_size + 1
         ELSE Ceil(pg.N, pg.page_size)

\* a full last page without total-pages has been fetched, and the empty
\* page after it
C10_Witness ==
  /\ Returned
  /\ pg.N > 0 /\ pg.N % pg.page_size = 0 /\ ~pg.hasTotal
  /\ pg.requests = pg.N \div pg.page_size + 1

\* the request for page pg.failAt was sent and answered with a failure
PageFailed == pg.failAt >= 0 /\ pg.requests = pg.failAt + 1

\* C11: after a page request that returns a non-success status no further
\* request is issued, and _fetch_paginated returns the items of the pages
\* before it.
C11_FailedPageEndsListing ==
  /\ pg.failAt >= 0 => pg.requests <= pg.failAt + 1
  /\ PageFailed =>
       /\ pg.state = "returned"
       /\ pg.all_items = [i \in 1..Min(pg.N, pg.failAt * pg.page_size) |-> i - 1]

\* the second page failed after a full first page
C11_Witness ==
  /\ PageFailed /\ pg.state = "returned"
  /\ pg.failAt = 1
  /\ pg.all_items # <<>>

\* C12: against an endpoint that never signals completion the loop ends
\* after at most 10,000 page requests.
C12_AtMostLimitRequests ==
  pg.endless => pg.requests <= 10000

\* the phrases of a body, whatever their letter case
Written(body) == { w.phrase : w \in body }
Flipped(body) == { [phrase |-> w.phrase, upper |-> ~w.upper] : w \in body }
Classified ==
  frame.state = "returned" /\ frame.fn = "is_resource_already_exists_error"
C13Phrases ==
  { "duplicate_field", "duplicate_file_import",
    "already exists", "already present", "already been imported", "duplicate",
    "already been created", "resource already", "cannot be used", "must be unique",
    "e11000 duplicate key", "dup key" }

\* C13: for a body without invalid_request the classifier answers true
\* exactly when the status is 400, 409 or 500 and the body contains one of
\* the listed codes or fragments; for any other status it answers false; the
\* letter case of the body does not matter.
C13_ClassifierTable ==
  Classified =>
    LET body == frame.response_text IN
    /\ frame.status_code \notin {400, 409, 500} => ~frame.result
    /\ ~Contains(Written(body), "invalid_request") =>
         frame.result = ( /\ frame.status_code \in {400, 409, 500}
                          /\ \E m \in C13Phrases : Contains(Written(body), m) )
    /\ frame.result =
         is_resource_already_exists_error(frame.status_code, Lower(Flipped(body)))

\* a body written in upper case was classified as already-exists
C13_Witness ==
  /\ Classified /\ frame.result
  /\ frame.status_code = 500
  /\ frame.response_text = { [phrase |-> "e11000 duplicate key", upper |-> TRUE] }

\* C14: a body that contains the code INVALID_REQUEST is classified as
\* already-exists only if it also contains 'already exists', 'already been
\* imported' or 'already present'.
C14_InvalidRequestNeedsPhrase ==
  ( /\ Classified
    /\ frame.status_code \in {400, 409, 500}
    /\ Contains(Written(frame.response_text), "invalid_request")
    /\ frame.result )
  => \E m \in {"already exists", "already been imported", "already present"} :
       Contains(Written(frame.response_text), m)

\* the five rules, first match first
C15Reference(f) ==
  IF f.storeType = "REMOTE" THEN TRUE
  ELSE IF f.storeType = "INLINE" THEN FALSE
  ELSE IF f.gitDetails \in {"partial", "full"} \/ f.entityGitDetails \in {"partial", "full"}
       THEN TRUE
  ELSE IF f.repo # "absent" \/ f.branch # "absent" THEN TRUE
  ELSE IF f.yaml = "full" THEN (f.gitDetails # "absent" \/ f.entityGitDetails # "absent")
  ELSE FALSE

\* C15: is_gitx_resource answers as the five-rule first-match reference for
\* every combination of storeType, gitDetails, entityGitDetails, repo, branch
\* and yaml.
C15_StorageClassifier ==
  (frame.state = "returned" /\ frame.fn = "is_gitx_resource")
    => frame.result = C15Reference(frame)

\* storeType INLINE won over non-empty git details
C15_Witness ==
  /\ frame.state = "returned" /\ frame.fn = "is_gitx_resource"
  /\ frame.storeType = "INLINE" /\ frame.gitDetails = "full" /\ frame.repo = "full"
  /\ ~frame.result

\* the fetched data carries a git reference with repoName, branch and
\* filePath
C16Complete(d) ==
  d.gitDetails = "full" \/ d.entityGitDetails = "full" \/ d.entityGitInfo = "full"

\* C16: a resource classified Remote whose data lacks one of repoName,
\* branch and filePath is counted failed and no import or create call is
\* made for it.
C16_IncompleteGitRefFails ==
  [][ ( /\ last'.step = "FetchItem" /\ last'.outcome = "ok"
        /\ HasRemotePath(Fn)
        /\ PreCheck(Fn, scopes[si], items[ii]) = "process"
        /\ Remote(Fn, items[ii])
        /\ ~C16Complete(items[ii]) )
      => /\ pc' = "item"
         /\ results'.failed = results.failed + 1
         /\ calls' = calls ]_vars

\* C17: in a non-dry run, the request a phase with both transfer paths sends
\* for an item is the one its own fetched data selects: an import call when
\* is_gitx_resource of that data holds, a create call when it does not, and
\* one request only.
C17_OwnDataSelectsCall ==
  [][ ( /\ pc = "write" /\ last'.step = "Write"
        /\ ~dry_run /\ HasRemotePath(Fn)
        /\ calls' # calls )
      => /\ Len(calls') = Len(calls) + 1
         /\ calls'[Len(calls')].path =
              IF is_gitx_resource(cur.data) THEN "import" ELSE "create" ]_vars

\* ------------------------------------------------------------------------
\* Scope enumeration (SpecCall)
\* ------------------------------------------------------------------------
AllScopesReturned == frame.state = "returned" /\ frame.fn = "_get_all_scopes"
ProjectScopesReturned == frame.state = "returned" /\ frame.fn = "_get_project_scopes"

\* C18: in every list _get_all_scopes returns, a scope with a project has an
\* organization, and the first scope is the account scope (None, None),
\* whatever the listings hold and whichever of them failed.
C18_ScopesWellFormed ==
  AllScopesReturned =>
    /\ Len(frame.result) >= 1
    /\ frame.result[1] = AccountScope
    /\ \A i \in 1..Len(frame.result) :
         frame.result[i].proj # None => frame.result[i].org # None
\* a returned enumeration whose project listing held a project with an
\* identifier of its own and a null organization identifier, next to one
\* with both
C18_Witness ==
  /\ AllScopesReturned
  /\ frame.projFault = NoFault
  /\ \E i \in 1..Len(frame.projects) :
       frame.projects[i].org = None /\ frame.projects[i].id # ""
  /\ \E i \in 1..Len(frame.result) : frame.result[i].proj # None

\* the scopes of one level in a returned list, in their order
AccountLevel(q) == SelectSeq(q, LAMBDA sc : sc.org = None /\ sc.proj = None)
OrgLevel(q) == SelectSeq(q, LAMBDA sc : sc.org # None /\ sc.proj = None)
ProjectLevel(q) == SelectSeq(q, LAMBDA sc : sc.proj # None)
\* no organization scope after a project scope, the account scope first
LevelsInOrder(q) ==
  /\ Len(q) >= 1 /\ q[1] = AccountScope /\ Len(AccountLevel(q)) = 1
  /\ \A i, j \in 1..Len(q) : i < j /\ q[i].proj # None => q[j].proj # None
\* both listings of the call were served whole
AllScopesServed ==
  AllScopesReturned /\ frame.orgFault = NoFault /\ frame.projFault = NoFault
\* the project scopes of a project listing: the entries with both identifiers
C19ProjectScopes(projects) ==
  LET both == SelectSeq(projects, LAMBDA p : p.org \notin {None, ""} /\ p.id # "")
  IN  [i \in 1..Len(both) |-> Scope(both[i].org, both[i].id)]

\* C19 as stated: _get_all_scopes returns one account scope, then one
\* organization scope for each entry of the organization listing in listing
\* order, then one project scope for each project entry with both
\* identifiers in listing order; no organization scope follows a project
\* scope.
C19_OnePerListedOrganization ==
  AllScopesServed =>
    /\ LevelsInOrder(frame.result)
    /\ OrgLevel(frame.result) =
         [i \in 1..Len(frame.organizations) |-> Scope(frame.organizations[i].id, None)]
    /\ ProjectLevel(frame.result) = C19ProjectScopes(frame.projects)
\* C19 amended: the organization scopes are those of the listed
\* organizations that carry an identifier, in listing order; the rest as
\* stated.
C19_ScopesInListingOrder ==
  AllScopesServed =>
    /\ LevelsInOrder(frame.result)
    /\ OrgLevel(frame.result) =
         LET named == SelectSeq(frame.organizations, LAMBDA o : o.id # "")
         IN  [i \in 1..Len(named) |-> Scope(named[i].id, None)]
    /\ ProjectLevel(frame.result) = C19ProjectScopes(frame.projects)
\* a returned list with an organization scope and a project scope, from
\* listings that hold an organization without an identifier
C19_Witness ==
  /\ AllScopesServed
  /\ \E i \in 1..Len(frame.organizations) : frame.organizations[i].id = ""
  /\ OrgLevel(frame.result) # <<>>
  /\ ProjectLevel(frame.result) # <<>>

\* the request of page fault.page of a listing is made, and goes wrong
Failed(served, fault) ==
  fault.kind # "none" /\ fault.page * ListedPerPage <= Len(served)
\* a failed listing gives nothing
EmptyIfFailed(served, fault) == IF Failed(served, fault) THEN <<>> ELSE served
\* a failed listing gives the entries of the pages before the failed one,
\* and nothing when the request raised
EarlierPages(served, fault) ==
  IF ~Failed(served, fault) THEN served
  ELSE IF fault.kind = "raise" THEN <<>>
  ELSE SubSeq(served, 1, fault.page * ListedPerPage)

RECURSIVE Repeat(_, _)
Repeat(q, n) == IF n = 0 THEN <<>> ELSE q \o Repeat(q, n - 1)
Count(x, q) == Cardinality({ i \in 1..Len(q) : q[i].id = x })
\* _get_all_scopes returned the account scope, the scopes of the
\* organizations in orgsGot and the scopes of the projects in projGot
C20AllScopes(orgsGot, projGot) ==
  /\ LevelsInOrder(frame.result)
  /\ OrgLevel(frame.result) =
       LET named == SelectSeq(orgsGot, LAMBDA o : o.id # "")
       IN  [i \in 1..Len(named) |-> Scope(named[i].id, None)]
  /\ ProjectLevel(frame.result) = C19ProjectScopes(projGot)
\* _get_project_scopes returned, for each organization of orgsGot, the
\* scopes of the projects in projGotOf of that organization
C20ProjectScopes(orgsGot, projGotOf) ==
  /\ \A i \in 1..Len(frame.result) : frame.result[i].org \in ListedOrgIds
  /\ \A o \in ListedOrgIds :
       LET named == SelectSeq(projGotOf[o], LAMBDA p : p.id # "")
           own   == [i \in 1..Len(named) |-> Scope(o, named[i].id)]
       IN  SelectSeq(frame.result, LAMBDA sc : sc.org = o) = Repeat(own, Count(o, orgsGot))

\* C20 as stated: when a listing of the scope enumeration fails,
\* _get_all_scopes and _get_project_scopes still return; the failed listing
\* contributes no scope and every other listing contributes all of its own.
C20_FailedBranchIsEmpty ==
  /\ AllScopesReturned =>
       C20AllScopes(EmptyIfFailed(frame.organizations, frame.orgFault),
                    EmptyIfFailed(frame.projects, frame.projFault))
  /\ ProjectScopesReturned =>
       C20ProjectScopes(EmptyIfFailed(frame.organizations, frame.orgFault),
                        [o \in ListedOrgIds |->
                           EmptyIfFailed(ProjectsOf(frame.projects, o), frame.projFault[o])])
\* C20 amended: a listing that fails with a non-success status contributes
\* the scopes of the entries of the pages before the failed one (none when
\* its first page fails), a listing whose request raises contributes none,
\* and every other listing contributes all of its own; a call that has not
\* returned can return.
C20_FailedBranchKeepsEarlierPages ==
  /\ AllScopesReturned =>
       C20AllScopes(EarlierPages(frame.organizations, frame.orgFault),
                    EarlierPages(frame.projects, frame.projFault))
  /\ ProjectScopesReturned =>
       C20ProjectScopes(EarlierPages(frame.organizations, frame.orgFault),
                        [o \in ListedOrgIds |->
                           EarlierPages(ProjectsOf(frame.projects, o), frame.projFault[o])])
  /\ frame.state = "called" /\ frame.fn \in {"_get_all_scopes", "_get_project_scopes"}
       => ENABLED (AllScopesCall \/ ProjectScopesCall)
\* _get_all_scopes returned the organization scopes although the project
\* listing, which holds a project with both identifiers, raised
C20_Witness ==
  /\ AllScopesReturned
  /\ frame.projFault.kind = "raise"
  /\ C19ProjectScopes(frame.projects) # <<>>
  /\ ProjectLevel(frame.result) = <<>>
  /\ OrgLevel(frame.result) # <<>>

\* ------------------------------------------------------------------------
\* Scope levels of the phases (Spec)
\* ------------------------------------------------------------------------
\* the running phase iterates its scopes
InScopes == pc \in {"list", "sublist", "item", "write", "write2"}
ProjectOnlyFns == {"pipelines", "input_sets", "triggers", "user_journeys", "monitored_services"}
\* what the scope enumerators give for the listings of the tenant: whole, or
\* empty when a listing request of the run has gone wrong
C21Listings(whole) == IF faults = 0 THEN {whole} ELSE {whole, <<>>}
C21AllScopes ==
  { GetAllScopes(o, p) : o \in C21Listings(SrcOrganizations), p \in C21Listings(SrcProjects) }
C21ProjectScopes ==
  { GetProjectScopes(o, p) : o \in C21Listings(SrcOrganizations), p \in C21Listings(SrcProjects) }
BothSet(sc) == sc.org # None /\ sc.proj # None
\* the project-only phases and the phases named as account-only
C21Named ==
  /\ InScopes /\ Fn \in ProjectOnlyFns =>
       /\ scopes \in C21ProjectScopes
       /\ \A i \in 1..Len(scopes) : BothSet(scopes[i])
  /\ InScopes /\ Fn \in {"organizations", "ip_allowlists"} => scopes = << AccountScope >>
  /\ \A i \in 1..Len(calls) :
       /\ calls[i].fn \in ProjectOnlyFns => BothSet(calls[i].key)
       /\ calls[i].fn \in {"organizations", "ip_allowlists"} =>
            calls[i].key.org = None /\ calls[i].key.proj = None

\* C21 as stated: the project-only phases work at scopes with both
\* identifiers, taken from _get_project_scopes; organizations and IP
\* allowlists work at the account scope only; every other phase iterates
\* exactly the scopes of _get_all_scopes.
C21_EveryOtherPhaseAllScopes ==
  /\ C21Named
  /\ InScopes /\ Fn \notin ProjectOnlyFns \cup {"organizations", "ip_allowlists"} =>
       scopes \in C21AllScopes
\* C21 amended: the projects phase enumerates no scopes either: it lists
\* the projects once, without a scope, and writes each project under the
\* project's own organization; the rest as stated.
C21_PhaseScopeLevels ==
  /\ C21Named
  /\ InScopes /\ Fn = "projects" => scopes = << AccountScope >>
  /\ \A i \in 1..Len(calls) :
       calls[i].fn = "projects" =>
         /\ calls[i].key.proj = None
         /\ \E j \in 1..Len(SrcProjects) :
              SrcProjects[j].id = calls[i].key.id /\ SrcProjects[j].org = calls[i].key.org
  /\ InScopes /\ Fn \notin ProjectOnlyFns \cup {"organizations", "projects", "ip_allowlists"} =>
       scopes \in C21AllScopes
\* a pipeline and a project have been written in one run
C21_Witness ==
  /\ \E i \in 1..Len(calls) : calls[i].fn = "pipelines"
  /\ \E i \in 1..Len(calls) : calls[i].fn = "projects" /\ calls[i].key.org = "o1"

\* ------------------------------------------------------------------------
\* Repeated writes (Spec)
\* ------------------------------------------------------------------------
\* the create-or-import requests of the run: the first request of an item
MainCalls == { i \in 1..Len(calls) : calls[i].key.part = "main" }

\* C30: the 'templates' phase writes only the templates the two earlier
\* template phases left: no template version gets a write request from the
\* 'templates' phase after one from the secret-manager-templates or the
\* deployment/artifact-source-templates phase, so no template version is
\* written twice in a run.
C30_TemplatesWrittenOnce ==
  \A i, j \in MainCalls :
    /\ calls[i].key.type = "template" /\ calls[i].key = calls[j].key
    => i = j

\* one create-or-import request at most for an item of a scope in a phase
OneAttemptPerPhase ==
  \A i, j \in MainCalls :
    calls[i].phase = calls[j].phase /\ calls[i].key = calls[j].key => i = j
\* no request for an item after one that was classified already-exists
NoWriteAfterExists ==
  \A i, j \in MainCalls :
    i < j /\ calls[i].exists => calls[i].key # calls[j].key

\* C22: nothing is retried within a run: an item of a scope gets at most one
\* create-or-import request in a phase whatever the response, and an item
\* whose write was classified already-exists gets no further write request
\* in the run.
C22_NothingRetried == OneAttemptPerPhase /\ NoWriteAfterExists

\* C23: a failure to write the export file of an item changes nothing: the
\* item goes on to its write to the destination with the counters as they
\* were, and the run is not aborted.
C23_ExportFailureHarmless ==
  [][ last'.step = "FetchItem" /\ last'.outcome = "export_raise"
      => /\ pc' = "write"
         /\ results' = results
         /\ cur'.data = items[ii] ]_vars

\* ------------------------------------------------------------------------
\* Sequential execution (Spec)
\* ------------------------------------------------------------------------
RunningPhases == { i \in 1..NumPhases : phaseStatus[i] = "Running" }
SelectedBefore(i) ==
  { j \in 1..(i - 1) : InList(PhaseAt(j).rtype, resource_types) }

\* C24: execution is strictly sequential: a step issues at most one request,
\* at most one phase is Running, a phase only moves NotStarted -> Running ->
\* Completed, and a request of a phase is issued while that phase is Running
\* and every selected phase before it is Completed.
C24_StrictlySequential ==
  [][ /\ Cardinality(RunningPhases) <= 1 /\ Cardinality(RunningPhases') <= 1
      /\ Len(calls') <= Len(calls) + 1
      /\ \A i \in 1..NumPhases :
           \/ phaseStatus'[i] = phaseStatus[i]
           \/ phaseStatus[i] = "NotStarted" /\ phaseStatus'[i] = "Running"
           \/ phaseStatus[i] = "Running" /\ phaseStatus'[i] = "Completed"
      /\ calls' # calls =>
           /\ calls' = Append(calls, calls'[Len(calls')])
           /\ calls'[Len(calls')].phase = phase
           /\ RunningPhases = {phase}
           /\ \A j \in SelectedBefore(phase) : phaseStatus[j] = "Completed" ]_vars
\* a request of a second phase has been issued after the requests of a
\* first, which is Completed
C24_Witness ==
  \E i, j \in 1..Len(calls) :
    /\ i < j /\ calls[i].phase < calls[j].phase
    /\ phaseStatus[calls[i].phase] = "Completed"
    /\ phaseStatus[calls[j].phase] = "Running"

\* ------------------------------------------------------------------------
\* Counter accounting (Spec)
\* ------------------------------------------------------------------------
C25Fns == {"environments", "infrastructures", "services", "pipelines"}
CountSum(r) == r.success + r.failed + r.skipped
\* r2 is r1 with exactly one counter one higher
OneMore(r1, r2) ==
  \E f \in {"success", "failed", "skipped"} : r2 = [r1 EXCEPT ![f] = @ + 1]

\* C25: in the environments, infrastructures, services and pipelines
\* phases, the step that finishes a listed item raises exactly one of
\* success, failed, skipped by one, no other step of the phase changes a
\* counter, and when the phase ends the three counters add up to the
\* number of items the phase listed.
C25_OneCountPerItem ==
  [][ phase <= NumPhases /\ Fn \in C25Fns /\ phaseStatus[phase] = "Running"
      => /\ IF ii' = ii + 1 /\ items' = items
            THEN OneMore(results, results')
            ELSE results' = results
         /\ last'.step = "EndPhase" =>
              /\ CountSum(results) = listedCount
              /\ all_results'[Key] = results ]_vars
\* a pipelines phase has ended with its three listed pipelines counted, one
\* of them failed
C25_Witness ==
  /\ last.step = "EndPhase"
  /\ "pipelines" \in DOMAIN all_results
  /\ listedCount = 3
  /\ CountSum(all_results["pipelines"]) = 3
  /\ all_results["pipelines"].failed >= 1
  /\ all_results["pipelines"].success >= 1
\* the answer to the request for page k calls for page k+1: a success
\* status, a batch of at least page_size items, and no total-pages value or
\* one that puts k before the last page
NextPageDue(resp, k, page_size) ==
  /\ resp.status = 200
  /\ resp.batch >= page_size
  /\ resp.total_pages = << >> \/ k < resp.total_pages[1] - 1

\* C26 as stated: _fetch_paginated requests page k+1 if and only if page k
\* returned a success status, its batch held at least pageSize items, and
\* either no total-pages value could be resolved or k < totalPages - 1.
C26_NextPageIff ==
  [][ pg.state = "loop" =>
        (pg'.state = "loop" <=> NextPageDue(pg'.resp, pg.page, pg.page_size)) ]_vars

\* C26: _fetch_paginated requests page k+1 if and only if page k returned a
\* success status, its batch held at least pageSize items, either no
\* total-pages value could be resolved or k < totalPages - 1, and k is below
\* the ceiling of 10,000; in every other case page k is the last request.
C26_NextPageIffBelowCeiling ==
  [][ pg.state = "loop" =>
        /\ pg'.requests = pg.requests + 1
        /\ pg'.state = "loop" <=>
             /\ NextPageDue(pg'.resp, pg.page, pg.page_size)
             /\ pg.page < page_limit
        /\ pg'.state # "loop" => pg'.state = "returned" ]_vars

\* a full page whose total-pages value says more pages follow was answered
\* by a second request, and that one's short batch ended the listing
C26_Witness ==
  /\ pg.state = "returned" /\ pg.requests = 2
  /\ pg.hasTotal /\ pg.skew = 1
  /\ pg.resp.status = 200 /\ pg.resp.batch < pg.page_size
  /\ pg.resp.total_pages # << >> /\ pg.page < pg.resp.total_pages[1] - 1

\* obj[k] is v
HasKey(obj, k) == \E e \in obj.fields : e[1] = k
GetItem(obj, k) == (CHOOSE e \in obj.fields : e[1] = k)[2]
Carries(obj, k, v) == HasKey(obj, k) /\ GetItem(obj, k) = v
\* the cursor of the k-th request
CursorOf(k) == IF pg.use_offset THEN k * pg.page_size ELSE k
\* both pagination fields are in obj, with the values of the k-th request
CarriesPage(obj, k) ==
  /\ Carries(obj, "page_param_name", CursorOf(k))
  /\ Carries(obj, "size_param_name", pg.page_size)
CarriesNoPage(obj) ==
  ~HasKey(obj, "page_param_name") /\ ~HasKey(obj, "size_param_name")

BatchOf(k) ==
  LET value == PaginationValue(pg.use_offset, k, pg.page_size)
  IN  IF pg.overlap = 0
      THEN PageContent(pg.N, pg.use_offset, value, pg.page_size)
      ELSE OverlappingContent(pg.N, pg.use_offset, value, pg.page_size, pg.overlap)
\* the batches of the first n requests, those answered with a failure left
\* out, one after the other
RECURSIVE BatchesOf(_)
BatchesOf(n) ==
  IF n = 0 THEN <<>>
  ELSE BatchesOf(n - 1) \o (IF n - 1 = pg.failAt THEN <<>> ELSE BatchOf(n - 1))

\* C28: the list _fetch_paginated returns is exactly the concatenation, in
\* request order, of the batches of all successfully fetched pages, nothing
\* removed, reordered or de-duplicated: an item two pages contain appears
\* twice.
C28_ConcatenationOfBatches ==
  pg.state # "idle" /\ ~pg.endless => pg.all_items = BatchesOf(pg.requests)

\* the call returned a list in which an item of two overlapping pages
\* appears twice
C28_Witness ==
  /\ pg.state = "returned" /\ pg.overlap = 1 /\ pg.requests >= 2
  /\ \E i, j \in 1..Len(pg.all_items) : i < j /\ pg.all_items[i] = pg.all_items[j]

\* C29: the fixed inter-call delay separates API calls: after every page
\* fetch of a listing a delay occurs before the next API call is issued, so
\* no two page requests are issued back to back.
C29_DelayBetweenPageRequests ==
  pg.state # "idle" => pg.delays >= pg.requests - 1

\* the sub-type of a template of the source tenant, and its place in the
\* order Step / MonitoredService, StepGroup, Stage, Pipeline, others
TemplateTypeOf(id) ==
  LET all == SrcTemplates \o SrcProjectTemplates
  IN  all[CHOOSE i \in 1..Len(all) : all[i].id = id].ttype
TemplateRank(id) ==
  LET ty == TemplateTypeOf(id)
  IN  IF ty \in {"Step", "MonitoredService"} THEN 1
      ELSE IF ty = "StepGroup" THEN 2
      ELSE IF ty = "Stage" THEN 3
      ELSE IF ty = "Pipeline" THEN 4
      ELSE 5
\* the write requests of the 'templates' phase
TemplateWrites == { i \in 1..Len(calls) : calls[i].pkey = "templates" }
SameScope(k1, k2) == k1.org = k2.org /\ k1.proj = k2.proj

\* C31 as stated: within the 'templates' phase the templates are written in
\* sub-type order over all scopes together: no template is written before a
\* template of an earlier sub-type, whatever their scopes.
C31_SubTypeOrderAcrossScopes ==
  \A i, j \in TemplateWrites :
    i < j => TemplateRank(calls[i].key.id) <= TemplateRank(calls[j].key.id)

\* C31: within the 'templates' phase the templates of one scope are written
\* in sub-type order (Step and MonitoredService, then StepGroup, Stage,
\* Pipeline, then the other types); the scopes are taken one after the
\* other, each with all its sub-types.
C31_SubTypeOrderPerScope ==
  \A i, j \in TemplateWrites :
    /\ i < j => calls[i].key.org = None \/ calls[j].key.org # None
    /\ i < j /\ SameScope(calls[i].key, calls[j].key)
       => TemplateRank(calls[i].key.id) <= TemplateRank(calls[j].key.id)

\* the account's Step template was written before its Stage template, and
\* the project's Step template after both
C31_Witness ==
  \E i, j, k \in TemplateWrites :
    /\ i < j /\ j < k
    /\ calls[i].key.id = "t_step" /\ calls[j].key.id = "t_stage"
    /\ calls[k].key.id = "t_p_step" /\ calls[k].key.proj = "p1"

\* resource data whose class only the yaml rule can decide: no storeType,
\* no non-empty gitDetails / entityGitDetails, no repo / branch key, and an
\* empty gitDetails or entityGitDetails key
YamlRuleOnly(d) ==
  /\ d.storeType = "absent" /\ ~d.repoBranch
  /\ ~NonEmpty(d.gitDetails) /\ ~NonEmpty(d.entityGitDetails)
  /\ d.gitDetails = "empty" \/ d.entityGitDetails = "empty"
\* the loop body runs on such an item, its get answered
YamlRuleStep ==
  /\ pc = "item" /\ ii <= Len(items) /\ HasRemotePath(Fn)
  /\ YamlRuleOnly(items[ii])
  /\ last'.step = "FetchItem" /\ last'.outcome = "ok"
\* the item is counted failed and does not reach the write step
FailedWithoutWrite ==
  /\ results' = [results EXCEPT !.failed = @ + 1]
  /\ pc' = "item" /\ ii' = ii + 1
  /\ calls' = calls

WritesOf(fns, sc, it) ==
  { i \in MainCalls :
      calls[i].fn \in fns /\ calls[i].key = DestKey(CHOOSE f \in fns : TRUE, sc, it, "main", "") }
IsDefaultConnector(sc, it) ==
  (sc = AccountScope /\ it.id = "harnessImage") \/ it.id = "harnessSecretManager"
\* the phase a connector / a secret belongs to
ConnectorPhase(it) ==
  IF is_custom_secret_manager_connector(it) THEN "custom_secret_manager_connectors"
  ELSE IF is_secret_manager_connector(it) THEN "secret_manager_connectors"
  ELSE "connectors"
SecretPhase(it) ==
  IF it.harnessSM THEN "harness_secret_manager_secrets" ELSE "secrets"
\* a run that sends its writes and met no failed listing or get
CleanRun == pc = "done" /\ ~dry_run /\ faults = 0

Builtin(fn, sc, id) ==
  \/ fn = "organizations" /\ id = "default"
  \/ fn = "projects" /\ id = "default_project"
  \/ fn \in ConnectorFns /\ id = "harnessSecretManager"
  \/ fn \in ConnectorFns /\ sc = AccountScope /\ id = "harnessImage"
  \/ fn = "policies" /\ id \in BuiltinExamplePolicies
  \/ fn \in {"roles", "resource_groups"} /\ id \in UnderscoreIds
\* the loop body runs on a built-in resource
BuiltinStep ==
  /\ pc = "item" /\ ii <= Len(items)
  /\ Builtin(Fn, scopes[si], items[ii].id)
  /\ last'.step = "FetchItem" /\ last'.outcome \notin {"malformed", "empty"}

\* C34: the platform's built-in resources are never written to the
\* destination: the loop body leaves such an item without a get and
\* without a write, counting it 'skipped' (the two secret manager connector
\* phases pass over a connector that is not of their type without counting
\* it; the 'connectors' phase counts it), and no request for it is ever sent.
C34_BuiltinsNeverWritten ==
  [][ /\ BuiltinStep =>
           /\ last'.outcome = "ok"
           /\ pc' = "item" /\ ii' = ii + 1
           /\ \/ results' = [results EXCEPT !.skipped = @ + 1]
              \/ Fn \in {"connectors_custom", "connectors_sm"} /\ results' = results
      /\ \A i \in 1..Len(calls') :
           ~Builtin(calls'[i].fn, Scope(calls'[i].key.org, calls'[i].key.proj),
                    calls'[i].key.id) ]_vars

\* the project's built-in secret manager connector has just been counted
\* skipped by the secret manager connectors phase, after the account's
\* connectors were written
C34_Witness ==
  /\ pc = "item" /\ ii = 2
  /\ Fn = "connectors_sm" /\ scopes[si] = ProjScope
  /\ items[1].id = "harnessSecretManager"
  /\ last = Step("FetchItem", "ok")
  /\ results.skipped >= 1 /\ calls # <<>>

\* the write requests that carry a secret
SecretWrites == { i \in 1..Len(calls) : calls[i].fn \in SecretFns }

\* C35: a source secret value never leaves through the side channels the
\* tool controls: the export file of a secret never holds the fetched
\* spec.value, and the value sent for a secret of the built-in secret
\* manager is the placeholder 'changeme', never the source value.
C35_SecretValueStaysBehind ==
  /\ pc = "write" /\ Fn \in SecretFns =>
       /\ cur.exported # "source"
       /\ cur.data.value = "source" /\ cur.exported # "none" => cur.exported = "***REDACTED***"
  /\ \A i \in SecretWrites :
       calls[i].pkey = "harness_secret_manager_secrets" => calls[i].value = "changeme"

\* the built-in manager's secret went out with the placeholder, and the
\* other secret's export file has just been written with the marker
C35_Witness ==
  /\ pc = "write" /\ Fn = "secrets"
  /\ cur.data.value = "source" /\ cur.exported = "***REDACTED***"
  /\ \E i \in SecretWrites :
       calls[i].key.id = "sec_h" /\ calls[i].value = "changeme" /\ calls[i].accepted

\* C36: in the organizations phase a listed entry that carries no
\* organization data (no 'organization' key, or an empty one) is counted
\* 'failed', and the run goes on with the next listed organization.
C36_EntryWithoutDataCountsFailed ==
  [][ /\ pc = "item" /\ Fn = "organizations"
      /\ last'.step = "FetchItem" /\ last'.outcome \in {"malformed", "empty"}
      => /\ results' = [results EXCEPT !.failed = @ + 1]
         /\ pc' = "item" /\ ii' = ii + 1 ]_vars

\* C37: the pagination loop of list_overrides is equivalent to
\* _fetch_paginated with its default convention: against the same endpoint
\* both issue the same page requests and return the same list, and both
\* stop at the first short page even when the total-pages value says more
\* pages remain.
C37_OverridesLoopEquivalent ==
  (pg.state = "returned" /\ pg.ov.state = "returned") =>
    /\ pg.ov.requests = pg.requests
    /\ pg.ov.all_items = pg.all_items

\* the organization scope of scope number j of q is returned before it
ParentEarlier(q, j) == \E i \in 1..(j - 1) : q[i] = Scope(q[j].org, None)
\* the organizations the organization listing of the call gave back with an
\* identifier
OrgsListedInCall ==
  LET got == Listed(frame.organizations, frame.orgFault)
  IN  { got[i].id : i \in 1..Len(got) } \ {""}
\* C38 as stated: the list _get_all_scopes returns is closed under parents,
\* whatever the listings hold and whether or not the organization listing
\* failed: every project scope (org, project) is preceded by the
\* organization scope (org, None).
C38_ClosedUnderParents ==
  AllScopesReturned =>
    \A j \in 1..Len(frame.result) :
      frame.result[j].proj # None => ParentEarlier(frame.result, j)
\* C38 amended: every project scope comes after all organization scopes, and
\* its organization scope is returned (earlier) exactly when the organization
\* listing of the same call gave that organization back with an identifier;
\* the project scope of an organization that the failed or partial
\* organization listing left out is returned without its parent.
C38_ClosedOverListedOrganizations ==
  AllScopesReturned =>
    \A j \in 1..Len(frame.result) :
      frame.result[j].proj # None =>
        /\ ParentEarlier(frame.result, j) <=> frame.result[j].org \in OrgsListedInCall
        /\ \A i \in 1..Len(frame.result) :
             (frame.result[i].org # None /\ frame.result[i].proj = None) => i < j
\* a partial organization listing gave back o1 and lost o2; the project
\* listing holds a project of each: the first project scope has its parent,
\* the second has none
C38_Witness ==
  /\ AllScopesReturned
  /\ frame.orgFault.kind = "status"
  /\ OrgsListedInCall = {"o1"}
  /\ \E j, k \in 1..Len(frame.result) :
       /\ frame.result[j] = Scope("o1", "p1") /\ ParentEarlier(frame.result, j)
       /\ frame.result[k] = Scope("o2", "p1") /\ ~ParentEarlier(frame.result, k)

\* the destination requests of the item whose last follow-up is being sent:
\* its create call and the follow-ups after it, as the history holds them
\* once this step is taken
TwoStepCalls ==
  SubSeq(calls', Len(calls') - Len(FollowUps(Fn, cur.data)), Len(calls'))
\* the item is counted 'success' by this step
TwoStepSuccess(fns) ==
  pc = "write2" /\ Fn \in fns /\ results'.success > results.success
\* the create call and the permissions / role-bindings / health-source call
\* of the item were all accepted by the destination
TwoStepComplete ==
  \A i \in 1..Len(TwoStepCalls) :
    TwoStepCalls[i].key.part \in {"main", "permissions", "roleBindings", "healthSources"}
      => TwoStepCalls[i].accepted
\* the create call of the item was accepted by the destination
TwoStepCreated ==
  TwoStepCalls[1].key.part = "main" /\ TwoStepCalls[1].accepted
\* C39 as stated: a role, service account or monitored service written in
\* two steps is counted 'success' only if the destination accepted both its
\* create call and its follow-up call (permissions, role bindings,
\* health-source update).
C39_SuccessOnlyWhenComplete ==
  [][TwoStepSuccess({"roles", "service_accounts", "monitored_services"})
       => TwoStepComplete]_vars
\* C39 amended: a role is counted 'success' only if both its create call and
\* its permissions update were accepted; a service account or monitored
\* service is counted 'success' only if its create call was accepted, and is
\* counted 'success' then whatever became of its follow-up call.
C39_SuccessFollowsCreate ==
  [][/\ TwoStepSuccess({"roles", "service_accounts", "monitored_services"})
          => TwoStepCreated
     /\ TwoStepSuccess({"roles"}) => TwoStepComplete
     /\ (/\ pc = "write2" /\ Fn \in {"service_accounts", "monitored_services"}
         /\ pc' # "write2" /\ pc' # "crashed")
          => results'.success = results.success + 1]_vars
\* a service account was counted 'success' although the destination refused
\* its role bindings
C39_Witness ==
  /\ last.step = "WriteFollowUp"
  /\ calls # <<>> /\ calls[Len(calls)].fn = "service_accounts"
  /\ results.success >= 1
  /\ \E i \in 1..Len(calls) :
       /\ calls[i].fn = "service_accounts" /\ calls[i].key.part = "roleBindings"
       /\ ~calls[i].accepted

====
